---- MODULE Spec2Model ----
(***************************************************************************)
(* The Agentation annotation broker: the HTTP surface (REST handlers and   *)
(* the two SSE endpoints) and the MCP tool dispatcher of                   *)
(* src/_package-export/src/server/mcp.ts, over the store and the event bus *)
(* they import (./store.js, ./events.js), which are modelled from the      *)
(* specification (sections 3, 4.1 and 4.2).                                *)
(***************************************************************************)
EXTENDS Integers, Sequences, FiniteSets, TLC

\* ------------------------------------------------------------------ bounds
MaxSessions == 2
MaxAnnotations == 2
MaxEvents == 4
MaxConns == 1
MaxFieldEvents == 5
MaxStreamConns == 2
MaxPings == 1
MaxBuffered == 2
MaxArgs == 3
MaxTables == 2

\* ------------------------------------------------------------------ values
DefaultPort == 4747
\* The not-found indication of the store, an absent JSON field, and a request
\* body that is not valid JSON.
NotFound == [notFound |-> TRUE]
Absent == "absent"
BadJson == [valid |-> FALSE]

Statuses == {"pending", "acknowledged", "resolved", "dismissed"}
Roles == {"human", "agent"}
Intents == {"fix", "change", "question", "approve"}
Severities == {"blocking", "important", "suggestion"}

\* The origin URLs a browser client submits, and the hosts an agent asks for.
Urls == {"http://localhost:3000/x", "http://localhost:3001/y", "not a url"}
Domains == {"localhost:3001", "example.com"}

SessionIds == 1..(MaxSessions + 1)
AnnotationIds == 1..(MaxAnnotations + 1)

VARIABLES
    sessions,          \* store: the sessions, in creation order
    annotations,       \* store: the annotations, in insertion order
    nextAnnotationId,  \* store: the next fresh annotation id
    clock,             \* store: the time of the last mutation
    sequence,          \* event bus: the last sequence number issued
    eventLog,          \* store: the retained events, in emission order
    emitted,           \* history: every event ever emitted, in emission order
    conns,             \* HTTP surface: the SSE connections, with the frames written
    resp,              \* the HTTP response written by the last request
    tool,              \* MCP dispatcher: the tool call in progress
    toolResult,        \* MCP dispatcher: the result of the last finished tool call
    apiKey,            \* command line: the API key given at startup, or Absent
    cli                \* command line: the command being run, its inputs and progress

vars == <<sessions, annotations, nextAnnotationId, clock, sequence, eventLog, emitted,
          conns, resp, tool, toolResult, apiKey, cli>>

storeVars == <<sessions, annotations, nextAnnotationId, clock>>
busVars == <<sequence, eventLog, emitted, conns>>

\* ------------------------------------------------------------------ helpers
Range(s) == {s[i] : i \in DOMAIN s}

\* A test that knows the empty string only.
Falsy_emptyOnly(v) == v = ""

\* A string field that JavaScript's ! takes for missing: undefined or "".
Falsy(v) == v = Absent \/ v = ""

\* ------------------------------------------------------------------ responses
sendJson(status, data) == [status |-> status, body |-> data]

sendError(status, message) == sendJson(status, [error |-> message])

\* ------------------------------------------------------------------ store
\* ./store.js is not part of the sources; its operations follow section 4.1.

SessionIn(ss, id) ==
    IF \E i \in DOMAIN ss : ss[i].id = id
    THEN ss[CHOOSE i \in DOMAIN ss : ss[i].id = id]
    ELSE NotFound

getSession(id) == SessionIn(sessions, id)

listSessions == sessions

AnnotationIn(as, id) ==
    IF \E i \in DOMAIN as : as[i].id = id
    THEN as[CHOOSE i \in DOMAIN as : as[i].id = id]
    ELSE NotFound

getAnnotation(id) == AnnotationIn(annotations, id)

getSessionWithAnnotations(id) ==
    IF getSession(id) = NotFound
    THEN NotFound
    ELSE [session |-> getSession(id),
          annotations |-> SelectSeq(annotations, LAMBDA a : a.sessionId = id)]

getPendingAnnotations(sessionId) ==
    SelectSeq(annotations, LAMBDA a : a.sessionId = sessionId /\ a.status = "pending")

createSession(url) == [id |-> Len(sessions) + 1, url |-> url, status |-> "active"]

\* "now": the store's clock reads a later time at every mutation.
now == clock + 1

\* A field of a JSON body, Absent when the body does not carry it.
Field(body, f) == IF f \in DOMAIN body THEN body[f] ELSE Absent

\* The annotation addAnnotation stores, or NotFound when the session is missing:
\* a fresh id, the session of the call, status pending, both timestamps now,
\* and the recognized optional fields as submitted.
addAnnotation(sessionId, body) ==
    IF getSession(sessionId) = NotFound
    THEN NotFound
    ELSE [id |-> nextAnnotationId, sessionId |-> sessionId, status |-> "pending",
          comment |-> body.comment, element |-> body.element,
          elementPath |-> body.elementPath, thread |-> <<>>,
          intent |-> Field(body, "intent"), severity |-> Field(body, "severity"),
          resolvedBy |-> Absent, resolvedAt |-> Absent,
          createdAt |-> now, updatedAt |-> now]

\* The transition lattice of section 3.
LegalTransitions ==
    { <<"pending", "acknowledged">>, <<"pending", "dismissed">>,
      <<"acknowledged", "resolved">>, <<"acknowledged", "dismissed">>,
      <<"resolved", "pending">>, <<"dismissed", "pending">> }

ValidationError == [threw |-> TRUE]

\* The fields a patch can overwrite: every field of the partial record that is
\* present, the id, the session and the creation timestamp among them; the
\* update timestamp is the store's to set.
PatchableFields ==
    {"comment", "element", "elementPath", "status", "intent", "severity",
     "resolvedBy", "resolvedAt", "thread", "id", "sessionId", "createdAt"}

\* The fields present in a patch.
PresentFields(patch) ==
    {f \in DOMAIN patch \cap PatchableFields : f # "status" \/ patch.status # Absent}

\* The patched annotation, NotFound, or ValidationError for an illegal
\* transition: fields present overwrite, fields absent are preserved, and the
\* update timestamp is bumped.
updateAnnotation(id, patch) ==
    LET existing == getAnnotation(id)
        present == PresentFields(patch)
    IN  IF existing = NotFound THEN NotFound
        ELSE IF /\ "status" \in present
                /\ patch.status # existing.status
                /\ <<existing.status, patch.status>> \notin LegalTransitions
        THEN ValidationError
        ELSE [f \in DOMAIN existing |->
                 IF f \in present THEN patch[f]
                 ELSE IF f = "updatedAt" THEN now
                 ELSE existing[f]]

\* The pre-delete snapshot, or NotFound.
deleteAnnotation(id) == getAnnotation(id)

\* The annotation with the message appended to its thread, or NotFound.
addThreadMessage(annotationId, role, content) ==
    LET existing == getAnnotation(annotationId) IN
    IF existing = NotFound THEN NotFound
    ELSE [existing EXCEPT !.thread =
              Append(@, [annotationId |-> annotationId, role |-> role,
                         content |-> content]),
                          !.updatedAt = now]

EventsSinceIn(log, sessionId, lastSequence) ==
    SelectSeq(log, LAMBDA e : e.sessionId = sessionId /\ e.sequence > lastSequence)

getEventsSince(sessionId, lastSequence) == EventsSinceIn(eventLog, sessionId, lastSequence)

\* The annotations with the one of the same id replaced, or removed.
Replaced(annotation) ==
    [i \in DOMAIN annotations |->
        IF annotations[i].id = annotation.id THEN annotation ELSE annotations[i]]

\* The annotations with the one stored under id given its patched fields.
Updated(id, annotation) ==
    [i \in DOMAIN annotations |->
        IF annotations[i].id = id THEN annotation ELSE annotations[i]]

\* A cascade that takes the other annotations of the session with it.
Removed_wholeSession(id) ==
    SelectSeq(annotations, LAMBDA a : a.sessionId # getAnnotation(id).sessionId)

Removed(id) == SelectSeq(annotations, LAMBDA a : a.id # id)

\* ------------------------------------------------------------------ SSE frames
\* The frame sendSSEEvent writes: event: <type>, id: <sequence>, data: <event>.
sendSSEEvent(event) ==
    [event |-> event.type, id |-> event.sequence, data |-> event]

\* new URL(url).host, for the URLs of the model; InvalidUrl when the
\* constructor throws.
InvalidUrl == "TypeError: Invalid URL"

UrlHost(url) ==
    CASE url = "http://localhost:3000/x" -> "localhost:3000"
      [] url = "http://localhost:3001/y" -> "localhost:3001"
      [] OTHER -> InvalidUrl

\* A listener that lets every event of an existing session through.
domainListener_unfiltered(domain, event, session) ==
    IF session # NotFound THEN <<sendSSEEvent(event)>> ELSE <<>>

\* The listener of the per-domain stream: the frames it writes for an event,
\* given the event's session as the store holds it when the event is emitted.
domainListener(domain, event, session) ==
    IF session # NotFound
    THEN IF UrlHost(session.url) # InvalidUrl /\ UrlHost(session.url) = domain
         THEN <<sendSSEEvent(event)>>
         ELSE <<>>
    ELSE <<>>

\* The listener of the per-session stream, behind subscribeToSession.
sessionListener(sessionId, event) ==
    IF event.sessionId = sessionId THEN <<sendSSEEvent(event)>> ELSE <<>>

\* res.write of the frames of one event: the frames join what has been
\* written to the connection and wait in its outgoing buffer until the socket
\* takes them. The value res.write returns is not looked at.
resWrite(conn, frames) ==
    [conn EXCEPT !.frames = @ \o frames, !.buffered = @ + Len(frames)]

\* ------------------------------------------------------------------ event bus
\* A bus that numbers an event by the length of the retained log.
emit_fromLogLength(type, sessionId, payload) ==
    LET event == [type |-> type, sessionId |-> sessionId,
                  sequence |-> Len(eventLog) + 1, payload |-> payload]
    IN  /\ sequence' = sequence + 1
        /\ eventLog' = Append(eventLog, event)
        /\ emitted' = Append(emitted, event)
        /\ conns' = conns

\* ./events.js is not part of the sources; the bus follows section 4.2: one
\* counter, the event appended to the log, then every live listener called.
\* The store has been changed when the event is emitted (sessions').
emit(type, sessionId, payload) ==
    LET event == [type |-> type, sessionId |-> sessionId,
                  sequence |-> sequence + 1, payload |-> payload]
    IN  /\ sequence' = sequence + 1
        /\ eventLog' = Append(eventLog, event)
        /\ emitted' = Append(emitted, event)
        /\ conns' = [c \in DOMAIN conns |->
              IF ~conns[c].subscribed THEN conns[c]
              ELSE resWrite(conns[c],
                       IF conns[c].kind = "session"
                       THEN sessionListener(conns[c].sessionId, event)
                       ELSE domainListener(conns[c].domain, event,
                                           SessionIn(sessions', sessionId)))]

\* ------------------------------------------------------------------ REST handlers
\* A handler runs without interruption once the body has been read, so each is
\* one step: the store operation, the event, and the response.

Respond(response) ==
    /\ resp' = response
    /\ UNCHANGED <<storeVars, busVars>>

ParseError == sendError(400, "Invalid JSON")

\* POST /sessions
createSessionHandler(body) ==
    IF ~body.valid THEN Respond(ParseError)
    ELSE IF Falsy(body.url) THEN Respond(sendError(400, "url is required"))
    ELSE LET session == createSession(body.url) IN
         /\ sessions' = Append(sessions, session)
         /\ clock' = now
         /\ UNCHANGED <<annotations, nextAnnotationId>>
         /\ emit("session.created", session.id, session)
         /\ resp' = sendJson(201, session)

\* An addAnnotationHandler that answers 201 with the store operation still to come.
addAnnotationHandler_answersFirst(id, body) ==
    IF ~body.valid THEN Respond(ParseError)
    ELSE IF Falsy(body.comment) \/ Falsy(body.element) \/ Falsy(body.elementPath)
    THEN Respond(sendError(400, "comment, element, and elementPath are required"))
    ELSE LET annotation == addAnnotation(id, body) IN
         IF annotation = NotFound THEN Respond(sendError(404, "Session not found"))
         ELSE Respond(sendJson(201, annotation))

\* An addAnnotationHandler that takes the session named in the body, if any.
addAnnotationHandler_sessionOfBody(id, body) ==
    IF ~body.valid THEN Respond(ParseError)
    ELSE IF Falsy(body.comment) \/ Falsy(body.element) \/ Falsy(body.elementPath)
    THEN Respond(sendError(400, "comment, element, and elementPath are required"))
    ELSE LET annotation ==
                 addAnnotation(IF "sessionId" \in DOMAIN body THEN body.sessionId ELSE id,
                               body) IN
         IF annotation = NotFound THEN Respond(sendError(404, "Session not found"))
         ELSE /\ annotations' = Append(annotations, annotation)
              /\ nextAnnotationId' = nextAnnotationId + 1
              /\ clock' = now
              /\ UNCHANGED sessions
              /\ emit("annotation.created", annotation.sessionId, annotation)
              /\ resp' = sendJson(201, annotation)

\* POST /sessions/:id/annotations
addAnnotationHandler(id, body) ==
    IF ~body.valid THEN Respond(ParseError)
    ELSE IF Falsy(body.comment) \/ Falsy(body.element) \/ Falsy(body.elementPath)
    THEN Respond(sendError(400, "comment, element, and elementPath are required"))
    ELSE LET annotation == addAnnotation(id, body) IN
         IF annotation = NotFound THEN Respond(sendError(404, "Session not found"))
         ELSE /\ annotations' = Append(annotations, annotation)
              /\ nextAnnotationId' = nextAnnotationId + 1
              /\ clock' = now
              /\ UNCHANGED sessions
              /\ emit("annotation.created", annotation.sessionId, annotation)
              /\ resp' = sendJson(201, annotation)

\* Without the catch clause the error reaches the server's own handler.
updateAnnotationCatch_uncaught(message) == sendError(500, "Internal server error")

\* The catch clause of updateAnnotationHandler.
updateAnnotationCatch(message) == sendError(400, message)

\* An updateAnnotationHandler that hands the store the status only.
updateAnnotationHandler_statusOnly(id, body) ==
    IF ~body.valid THEN Respond(updateAnnotationCatch("Invalid JSON"))
    ELSE IF getAnnotation(id) = NotFound
    THEN Respond(sendError(404, "Annotation not found"))
    ELSE LET annotation ==
                 updateAnnotation(id, [valid |-> TRUE, status |-> Field(body, "status")]) IN
         IF annotation = ValidationError
         THEN Respond(updateAnnotationCatch("Invalid status transition"))
         ELSE /\ annotations' = Replaced(annotation)
              /\ clock' = now
              /\ UNCHANGED <<sessions, nextAnnotationId>>
              /\ emit("annotation.updated", annotation.sessionId, annotation)
              /\ resp' = sendJson(200, annotation)

\* An updateAnnotationHandler that answers a patch of the current status
\* without calling the store.
updateAnnotationHandler_skipsSameStatus(id, body) ==
    IF ~body.valid THEN Respond(updateAnnotationCatch("Invalid JSON"))
    ELSE IF getAnnotation(id) = NotFound
    THEN Respond(sendError(404, "Annotation not found"))
    ELSE IF Field(body, "status") = getAnnotation(id).status
    THEN Respond(sendJson(200, getAnnotation(id)))
    ELSE LET annotation == updateAnnotation(id, body) IN
         IF annotation = ValidationError
         THEN Respond(updateAnnotationCatch("Invalid status transition"))
         ELSE /\ annotations' = Replaced(annotation)
              /\ clock' = now
              /\ UNCHANGED <<sessions, nextAnnotationId>>
              /\ emit("annotation.updated", annotation.sessionId, annotation)
              /\ resp' = sendJson(200, annotation)

\* PATCH /annotations/:id
updateAnnotationHandler(id, body) ==
    IF ~body.valid THEN Respond(updateAnnotationCatch("Invalid JSON"))
    ELSE IF getAnnotation(id) = NotFound
    THEN Respond(sendError(404, "Annotation not found"))
    ELSE LET annotation == updateAnnotation(id, body) IN
         IF annotation = ValidationError
         THEN Respond(updateAnnotationCatch("Invalid status transition"))
         ELSE /\ annotations' = Updated(id, annotation)
              /\ clock' = now
              /\ UNCHANGED <<sessions, nextAnnotationId>>
              /\ emit("annotation.updated", annotation.sessionId, annotation)
              /\ resp' = sendJson(200, annotation)

\* A getAnnotationHandler without the not-found test.
getAnnotationHandler_noCheck(id) == Respond(sendJson(200, getAnnotation(id)))

\* GET /annotations/:id
getAnnotationHandler(id) ==
    LET annotation == getAnnotation(id) IN
    IF annotation = NotFound THEN Respond(sendError(404, "Annotation not found"))
    ELSE Respond(sendJson(200, annotation))

\* The not-found test of deleteAnnotationHandler, inverted.
deleteAnnotationReply_inverted(annotation, id) ==
    IF annotation # NotFound
    THEN sendError(404, "Annotation not found")
    ELSE sendJson(200, [deleted |-> TRUE, annotationId |-> id])

\* What deleteAnnotationHandler answers, given what the store returned.
deleteAnnotationReply(annotation, id) ==
    IF annotation = NotFound
    THEN sendError(404, "Annotation not found")
    ELSE sendJson(200, [deleted |-> TRUE, annotationId |-> id])

\* DELETE /annotations/:id
deleteAnnotationHandler(id) ==
    LET annotation == deleteAnnotation(id) IN
    IF annotation = NotFound THEN Respond(deleteAnnotationReply(annotation, id))
    ELSE /\ annotations' = Removed(id)
         /\ clock' = now
         /\ UNCHANGED <<sessions, nextAnnotationId>>
         /\ emit("annotation.deleted", annotation.sessionId, annotation)
         /\ resp' = deleteAnnotationReply(annotation, id)

\* POST /annotations/:id/thread
addThreadHandler(id, body) ==
    IF ~body.valid THEN Respond(ParseError)
    ELSE IF Falsy(body.role) \/ Falsy(body.content)
    THEN Respond(sendError(400, "role and content are required"))
    ELSE LET annotation == addThreadMessage(id, body.role, body.content) IN
         IF annotation = NotFound THEN Respond(sendError(404, "Annotation not found"))
         ELSE /\ annotations' = Replaced(annotation)
              /\ clock' = now
              /\ UNCHANGED <<sessions, nextAnnotationId>>
              /\ emit("thread.message", annotation.sessionId,
                      annotation.thread[Len(annotation.thread)])
              /\ resp' = sendJson(201, annotation)

\* A count taken over the whole store.
pendingCount_ofStore(pending) == Len(annotations)

\* The count field of the two pending responses.
pendingCount(pending) == Len(pending)

\* GET /sessions/:id/pending
getPendingHandler(id) ==
    LET pending == getPendingAnnotations(id) IN
    Respond(sendJson(200, [count |-> pendingCount(pending), annotations |-> pending]))

\* Only the first session is looked at.
flatMapPending_firstOnly(ss) ==
    IF ss = <<>> THEN <<>> ELSE getPendingAnnotations(Head(ss).id)

\* sessions.flatMap((session) => getPendingAnnotations(session.id))
RECURSIVE flatMapPending(_)
flatMapPending(ss) ==
    IF ss = <<>> THEN <<>>
    ELSE getPendingAnnotations(Head(ss).id) \o flatMapPending(Tail(ss))

\* GET /pending
getAllPendingHandler ==
    LET allPending == flatMapPending(listSessions) IN
    Respond(sendJson(200, [count |-> pendingCount(allPending),
                            annotations |-> allPending]))

\* ------------------------------------------------------------------ SSE handlers
DigitChars == {"0", "1", "2", "3", "4", "5", "6", "7", "8", "9"}

DigitValue(c) ==
    CASE c = "0" -> 0 [] c = "1" -> 1 [] c = "2" -> 2 [] c = "3" -> 3 [] c = "4" -> 4
      [] c = "5" -> 5 [] c = "6" -> 6 [] c = "7" -> 7 [] c = "8" -> 8 [] c = "9" -> 9

NaN == [nan |-> TRUE]

RECURSIVE DigitPrefix(_, _)
DigitPrefix(s, acc) ==
    IF s = <<>> \/ Head(s) \notin DigitChars THEN acc
    ELSE DigitPrefix(Tail(s), 10 * acc + DigitValue(Head(s)))

DigitChar(d) ==
    CASE d = 0 -> "0" [] d = 1 -> "1" [] d = 2 -> "2" [] d = 3 -> "3" [] d = 4 -> "4"
      [] d = 5 -> "5" [] d = 6 -> "6" [] d = 7 -> "7" [] d = 8 -> "8" [] d = 9 -> "9"

\* String(n) of a natural number, as its characters.
RECURSIVE String(_)
String(n) == IF n < 10 THEN <<DigitChar(n)>> ELSE Append(String(n \div 10), DigitChar(n % 10))

\* parseInt(s, 10) of a string given as its characters: an optional sign, then
\* the longest run of digits; NaN when there is no digit.
parseInt(s) ==
    LET signed == s # <<>> /\ Head(s) \in {"-", "+"}
        digits == IF signed THEN Tail(s) ELSE s
    IN  IF digits = <<>> \/ Head(digits) \notin DigitChars THEN NaN
        ELSE [nan |-> FALSE,
              value |-> IF signed /\ Head(s) = "-"
                        THEN 0 - DigitPrefix(digits, 0)
                        ELSE DigitPrefix(digits, 0)]

NoHeader == [present |-> FALSE]

Header(chars) == [present |-> TRUE, value |-> chars]

\* A replay that takes the sequence number 0 for no number at all.
replayMissed_zeroIsFalsy(sessionId, lastEventId) ==
    IF lastEventId.present /\ lastEventId.value # <<>>
    THEN LET lastSequence == parseInt(lastEventId.value) IN
         IF ~lastSequence.nan /\ lastSequence.value # 0
         THEN LET missedEvents == getEventsSince(sessionId, lastSequence.value) IN
              [i \in DOMAIN missedEvents |-> sendSSEEvent(missedEvents[i])]
         ELSE <<>>
    ELSE <<>>

\* A replay of the missed events of every session.
replayMissed_everySession(sessionId, lastEventId) ==
    IF lastEventId.present /\ lastEventId.value # <<>>
    THEN LET lastSequence == parseInt(lastEventId.value) IN
         IF ~lastSequence.nan
         THEN LET missedEvents ==
                      SelectSeq(eventLog, LAMBDA e : e.sequence > lastSequence.value) IN
              [i \in DOMAIN missedEvents |-> sendSSEEvent(missedEvents[i])]
         ELSE <<>>
    ELSE <<>>

\* The frames of the replay at the start of the per-session stream.
replayMissed(sessionId, lastEventId) ==
    IF lastEventId.present /\ lastEventId.value # <<>>
    THEN LET lastSequence == parseInt(lastEventId.value) IN
         IF ~lastSequence.nan
         THEN LET missedEvents == getEventsSince(sessionId, lastSequence.value) IN
              [i \in DOMAIN missedEvents |-> sendSSEEvent(missedEvents[i])]
         ELSE <<>>
    ELSE <<>>

StreamOpened == [status |-> 200, body |-> [stream |-> "text/event-stream"]]

\* An sseHandler that sets the stream up before it looks for the session.
sseHandler_registersFirst(id, lastEventId) ==
    /\ conns' = Append(conns, [kind |-> "session", sessionId |-> id,
                               domain |-> Absent, open |-> TRUE,
                               subscribed |-> TRUE, keepAlive |-> TRUE,
                               pings |-> 0, buffered |-> 0, frames |-> <<>>])
    /\ resp' = IF getSessionWithAnnotations(id) = NotFound
               THEN sendError(404, "Session not found")
               ELSE StreamOpened
    /\ UNCHANGED <<storeVars, sequence, eventLog, emitted>>

\* GET /sessions/:id/events
sseHandler(id, lastEventId) ==
    IF getSessionWithAnnotations(id) = NotFound
    THEN Respond(sendError(404, "Session not found"))
    ELSE /\ conns' = Append(conns, [kind |-> "session", sessionId |-> id,
                                    domain |-> Absent, open |-> TRUE,
                                    subscribed |-> TRUE, keepAlive |-> TRUE,
                                    pings |-> 0,
                                    buffered |-> Len(replayMissed(id, lastEventId)),
                                    frames |-> replayMissed(id, lastEventId)])
         /\ resp' = StreamOpened
         /\ UNCHANGED <<storeVars, sequence, eventLog, emitted>>

\* GET /events?domain=...
globalSseHandler(domain, lastEventId) ==
    IF Falsy(domain)
    THEN Respond(sendError(400, "domain query parameter required"))
    ELSE /\ conns' = Append(conns, [kind |-> "domain", sessionId |-> 0,
                                    domain |-> domain, open |-> TRUE,
                                    subscribed |-> TRUE, keepAlive |-> TRUE,
                                    pings |-> 0, buffered |-> 0,
                                    frames |-> <<>>])
         /\ resp' = StreamOpened
         /\ UNCHANGED <<storeVars, sequence, eventLog, emitted>>

\* A close handler that forgets to call unsubscribe.
sseClose_keepsListener(c) ==
    /\ conns' = [conns EXCEPT ![c].open = FALSE, ![c].keepAlive = FALSE]
    /\ UNCHANGED <<storeVars, sequence, eventLog, emitted, resp>>

\* req.on("close"): clearInterval(keepAlive), unsubscribe() and
\* sseConnections.delete(res). Each of the three does nothing when it has
\* been done before.
sseClose(c) ==
    /\ conns' = [conns EXCEPT ![c].open = FALSE, ![c].subscribed = FALSE,
                              ![c].keepAlive = FALSE]
    /\ UNCHANGED <<storeVars, sequence, eventLog, emitted, resp>>

\* The setInterval callback of a stream: res.write(": ping\n\n"), for as long
\* as the interval has not been cleared.
keepAlivePing(c) ==
    /\ conns[c].keepAlive
    /\ conns' = [conns EXCEPT ![c].pings = @ + 1, ![c].buffered = @ + 1]
    /\ UNCHANGED <<storeVars, sequence, eventLog, emitted, resp>>

\* The socket of an open connection takes what res.write has buffered.
socketDrain(c) ==
    /\ conns[c].open
    /\ conns[c].buffered > 0
    /\ conns' = [conns EXCEPT ![c].buffered = 0]
    /\ UNCHANGED <<storeVars, sequence, eventLog, emitted, resp>>

\* ------------------------------------------------------------------ retention
\* The sweeper of section 4.2: the events older than the retention window, which
\* are the events up to some sequence number, leave the log.
sweepEvents(upTo) ==
    /\ \E i \in DOMAIN eventLog : eventLog[i].sequence <= upTo
    /\ eventLog' = SelectSeq(eventLog, LAMBDA e : e.sequence > upTo)
    /\ UNCHANGED <<storeVars, sequence, emitted, conns, resp>>

\* GET /sessions. The body is a JSON array, held as the record of its items.
listSessionsHandler == Respond(sendJson(200, [items |-> listSessions]))

getSessionHandler_pendingOnly(id) ==
    IF getSessionWithAnnotations(id) = NotFound
    THEN Respond(sendError(404, "Session not found"))
    ELSE Respond(sendJson(200, [session |-> getSession(id),
                               annotations |-> getPendingAnnotations(id)]))

\* GET /sessions/:id
getSessionHandler(id) ==
    IF getSessionWithAnnotations(id) = NotFound
    THEN Respond(sendError(404, "Session not found"))
    ELSE Respond(sendJson(200, getSessionWithAnnotations(id)))

\* ------------------------------------------------------------------ MCP tools
\* handleTool reaches the store through the HTTP surface only. A tool that makes
\* two requests (resolve with a summary, dismiss) has other clients' requests
\* between them; one tool call is in progress at a time.
Idle == [pc |-> "idle"]

\* res.ok of fetch
ok(response) == response.status >= 200 /\ response.status <= 299

success(data) == [isError |-> FALSE, data |-> data]

error(message) == [isError |-> TRUE, data |-> [message |-> message]]

\* fetch rejects: nothing answers at the base URL.
Unreachable == [status |-> 0, body |-> [failed |-> TRUE]]

\* What a request can meet other than the answer of its handler: no answer,
\* or a failure with a text of the foreign surface.
SurfaceFailures ==
    {Unreachable,
     [status |-> 404, body |-> [text |-> <<"n", "o">>]],
     [status |-> 400, body |-> [text |-> <<"n", "o">>]],
     [status |-> 400, body |-> [text |-> <<"e", "r", "r", " ", "4", "0", "4">>]],
     [status |-> 500, body |-> [text |-> <<"n", "o">>]]}

\* The surface at the base URL fails where the dispatcher runs without an HTTP
\* server of its own (--mcp-only): the surface is then another process.
fetch(request) ==
    \/ request
    \/ /\ cli.pc = "running"
       /\ ~cli.http
       /\ \E response \in SurfaceFailures : Respond(response)

\* res.text() of a failure: the text a foreign surface sent, or the JSON of an
\* error of this surface, whose messages hold no digit.
BodyText(body) ==
    IF "text" \in DOMAIN body THEN body.text ELSE <<"{", "e", "r", "r", "o", "r", "}">>

\* err.message, character by character: `HTTP ${res.status}: ${text}`, or the
\* message of the TypeError of fetch.
Message(response) ==
    IF response.status = 0 THEN <<"f", "e", "t", "c", "h", " ", "f", "a", "i", "l", "e", "d">>
    ELSE <<"H", "T", "T", "P", " ">> \o String(response.status) \o <<":", " ">>
             \o BodyText(response.body)

\* String.prototype.includes
includes(s, sub) ==
    \E i \in 1..(Len(s) - Len(sub) + 1) : SubSeq(s, i, i + Len(sub) - 1) = sub

\* A CallTool handler that lets the error go on to the transport.
callToolCatch_rethrows(message) == [rejected |-> TRUE, message |-> message]

\* The catch clause of the CallTool request handler: error(err.message).
callToolCatch(message) == error(message)

\* What a tool without a catch of its own, or whose catch throws the error
\* again, ends with when its request throws.
httpError(response) ==
    callToolCatch(IF response.status = 0 THEN <<"fetch failed">>
                  ELSE <<"HTTP ", response.status, response.body>>)

\* What the tool returns when httpPatch or httpPost throws.
annotationToolError(response, annotationId) ==
    IF includes(Message(response), <<"4", "0", "4">>)
    THEN error(<<"Annotation not found: ", annotationId>>)
    ELSE httpError(response)

\* `Resolved: ${summary}` and `Dismissed: ${reason}`, for the texts of the model.
ResolvedContent(summary) ==
    CASE summary = "fixed padding" -> "Resolved: fixed padding"

DismissedContent(reason) ==
    CASE reason = "wontfix" -> "Dismissed: wontfix"
      [] OTHER -> "Dismissed: undefined"

toolAcknowledge_alwaysSuccess(annotationId) ==
    /\ tool = Idle
    /\ fetch(updateAnnotationHandler(annotationId,
                                     [valid |-> TRUE, status |-> "acknowledged"]))
    /\ toolResult' = success([acknowledged |-> TRUE, annotationId |-> annotationId])
    /\ UNCHANGED tool

\* case "agentation_acknowledge"
toolAcknowledge(annotationId) ==
    /\ tool = Idle
    /\ fetch(updateAnnotationHandler(annotationId,
                                     [valid |-> TRUE, status |-> "acknowledged"]))
    /\ toolResult' = IF ok(resp')
                     THEN success([acknowledged |-> TRUE, annotationId |-> annotationId])
                     ELSE annotationToolError(resp', annotationId)
    /\ UNCHANGED tool

\* case "agentation_resolve", up to the end of its PATCH
toolResolve(annotationId, summary) ==
    /\ tool = Idle
    /\ fetch(updateAnnotationHandler(annotationId,
                                     [valid |-> TRUE, status |-> "resolved",
                                      resolvedBy |-> "agent"]))
    /\ IF ~ok(resp')
       THEN /\ toolResult' = annotationToolError(resp', annotationId)
            /\ UNCHANGED tool
       ELSE IF ~Falsy(summary)
       THEN /\ tool' = [pc |-> "thread", annotationId |-> annotationId,
                        content |-> ResolvedContent(summary),
                        data |-> [resolved |-> TRUE, annotationId |-> annotationId,
                                  summary |-> summary]]
            /\ UNCHANGED toolResult
       ELSE /\ toolResult' = success([resolved |-> TRUE, annotationId |-> annotationId,
                                      summary |-> summary])
            /\ UNCHANGED tool

\* case "agentation_dismiss", up to the end of its PATCH
toolDismiss(annotationId, reason) ==
    /\ tool = Idle
    /\ fetch(updateAnnotationHandler(annotationId,
                                     [valid |-> TRUE, status |-> "dismissed",
                                      resolvedBy |-> "agent"]))
    /\ IF ~ok(resp')
       THEN /\ toolResult' = annotationToolError(resp', annotationId)
            /\ UNCHANGED tool
       ELSE /\ tool' = [pc |-> "thread", annotationId |-> annotationId,
                        content |-> DismissedContent(reason),
                        data |-> [dismissed |-> TRUE, annotationId |-> annotationId,
                                  reason |-> reason]]
            /\ UNCHANGED toolResult

toolThread_ignoresFailure ==
    /\ tool # Idle
    /\ fetch(addThreadHandler(tool.annotationId,
                              [valid |-> TRUE, role |-> "agent",
                               content |-> tool.content]))
    /\ toolResult' = success(tool.data)
    /\ tool' = Idle

\* The POST /annotations/:id/thread that ends resolve and dismiss.
toolThread ==
    /\ tool # Idle
    /\ fetch(addThreadHandler(tool.annotationId,
                              [valid |-> TRUE, role |-> "agent",
                               content |-> tool.content]))
    /\ toolResult' = IF ok(resp')
                     THEN success(tool.data)
                     ELSE annotationToolError(resp', tool.annotationId)
    /\ tool' = Idle

\* The fields of an annotation the pending tools return.
toolAnnotation(a) ==
    [id |-> a.id, comment |-> a.comment, element |-> a.element,
     elementPath |-> a.elementPath, intent |-> a.intent, severity |-> a.severity]

\* case "agentation_get_all_pending"
toolGetAllPending ==
    /\ tool = Idle
    /\ fetch(getAllPendingHandler)
    /\ toolResult' = IF ok(resp')
                     THEN success([count |-> resp'.body.count,
                                   annotations |->
                                       [i \in DOMAIN resp'.body.annotations |->
                                           toolAnnotation(resp'.body.annotations[i])]])
                     ELSE httpError(resp')
    /\ UNCHANGED tool

\* case "agentation_list_sessions"
toolListSessions ==
    /\ tool = Idle
    /\ fetch(listSessionsHandler)
    /\ toolResult' = IF ok(resp')
                     THEN success([sessions |->
                              [i \in DOMAIN resp'.body.items |->
                                  [id |-> resp'.body.items[i].id,
                                   url |-> resp'.body.items[i].url,
                                   status |-> resp'.body.items[i].status]]])
                     ELSE httpError(resp')
    /\ UNCHANGED tool

\* case "agentation_get_session"
toolGetSession(sessionId) ==
    /\ tool = Idle
    /\ fetch(getSessionHandler(sessionId))
    /\ toolResult' = IF ok(resp')
                     THEN success(resp'.body)
                     ELSE IF includes(Message(resp'), <<"4", "0", "4">>)
                     THEN error(<<"Session not found: ", sessionId>>)
                     ELSE httpError(resp')
    /\ UNCHANGED tool

\* case "agentation_get_pending"
toolGetPending(sessionId) ==
    /\ tool = Idle
    /\ fetch(getPendingHandler(sessionId))
    /\ toolResult' = IF ok(resp')
                     THEN success([count |-> resp'.body.count,
                                   annotations |->
                                       [i \in DOMAIN resp'.body.annotations |->
                                           toolAnnotation(resp'.body.annotations[i])]])
                     ELSE httpError(resp')
    /\ UNCHANGED tool

\* case "agentation_reply"
toolReply(annotationId, message) ==
    /\ tool = Idle
    /\ fetch(addThreadHandler(annotationId,
                              [valid |-> TRUE, role |-> "agent", content |-> message]))
    /\ toolResult' = IF ok(resp')
                     THEN success([replied |-> TRUE, annotationId |-> annotationId,
                                   message |-> message])
                     ELSE annotationToolError(resp', annotationId)
    /\ UNCHANGED tool

\* The names of TOOLS, which the list-tools request answers.
TOOLS ==
    {"agentation_list_sessions", "agentation_get_session", "agentation_get_pending",
     "agentation_get_all_pending", "agentation_acknowledge", "agentation_resolve",
     "agentation_dismiss", "agentation_reply"}

\* Arguments of a call: undefined, or an object whose fields hold a string or
\* a value of another JSON type.
Undefined == [object |-> FALSE]

Str(v) == [type |-> "string", value |-> v]

NotAString == [type |-> "number"]

Object(fields) == [object |-> TRUE, fields |-> fields]

\* The zod schemas: the fields a tool requires, and the ones it accepts.
RequiredArgs(name) ==
    CASE name = "agentation_get_session" -> {"sessionId"}
      [] name = "agentation_get_pending" -> {"sessionId"}
      [] name = "agentation_acknowledge" -> {"annotationId"}
      [] name = "agentation_resolve" -> {"annotationId"}
      [] name = "agentation_dismiss" -> {"annotationId", "reason"}
      [] name = "agentation_reply" -> {"annotationId", "message"}
      [] OTHER -> {}

OptionalArgs(name) ==
    CASE name = "agentation_resolve" -> {"summary"}
      [] OTHER -> {}

IdArgs == {"sessionId", "annotationId"}

Parsed_idOnly(name, args) ==
    \/ RequiredArgs(name) = {}
    \/ /\ args.object
       /\ \A f \in RequiredArgs(name) \cap IdArgs :
              f \in DOMAIN args.fields /\ args.fields[f].type = "string"
       /\ \A f \in (RequiredArgs(name) \cup OptionalArgs(name)) \ IdArgs :
              f \in DOMAIN args.fields => args.fields[f].type = "string"

\* Schema.parse(args) returns rather than throws. The two tools that parse
\* nothing take any arguments.
Parsed(name, args) ==
    \/ RequiredArgs(name) = {}
    \/ /\ args.object
       /\ \A f \in RequiredArgs(name) :
              f \in DOMAIN args.fields /\ args.fields[f].type = "string"
       /\ \A f \in OptionalArgs(name) :
              f \in DOMAIN args.fields => args.fields[f].type = "string"

\* The arguments lack a required field or hold a value that is not a string.
Misfit(name, args) ==
    \/ ~args.object
    \/ \E f \in RequiredArgs(name) : f \notin DOMAIN args.fields
    \/ \E f \in DOMAIN args.fields : args.fields[f].type # "string"

Arg(args, f) == IF f \in DOMAIN args.fields THEN args.fields[f].value ELSE Absent

handleTool_fallsThrough(name, args) ==
    IF ~Parsed(name, args)
    THEN /\ tool = Idle
         /\ toolResult' = callToolCatch(<<"ZodError", name>>)
         /\ UNCHANGED <<storeVars, busVars, resp, tool>>
    ELSE CASE name = "agentation_list_sessions" -> toolListSessions
           [] name = "agentation_get_session" -> toolGetSession(Arg(args, "sessionId"))
           [] name = "agentation_get_pending" -> toolGetPending(Arg(args, "sessionId"))
           [] name = "agentation_get_all_pending" -> toolGetAllPending
           [] name = "agentation_acknowledge" -> toolAcknowledge(Arg(args, "annotationId"))
           [] name = "agentation_resolve" ->
                  toolResolve(Arg(args, "annotationId"), Arg(args, "summary"))
           [] name = "agentation_dismiss" ->
                  toolDismiss(Arg(args, "annotationId"), Arg(args, "reason"))
           [] name = "agentation_reply" ->
                  toolReply(Arg(args, "annotationId"), Arg(args, "message"))
           [] OTHER -> toolListSessions

\* The CallTool request handler around handleTool: the switch on the name,
\* each case parsing its arguments first, and the catch that turns whatever
\* the case throws into an error result.
handleTool(name, args) ==
    IF ~Parsed(name, args)
    THEN /\ tool = Idle
         /\ toolResult' = callToolCatch(<<"ZodError", name>>)
         /\ UNCHANGED <<storeVars, busVars, resp, tool>>
    ELSE CASE name = "agentation_list_sessions" -> toolListSessions
           [] name = "agentation_get_session" -> toolGetSession(Arg(args, "sessionId"))
           [] name = "agentation_get_pending" -> toolGetPending(Arg(args, "sessionId"))
           [] name = "agentation_get_all_pending" -> toolGetAllPending
           [] name = "agentation_acknowledge" -> toolAcknowledge(Arg(args, "annotationId"))
           [] name = "agentation_resolve" ->
                  toolResolve(Arg(args, "annotationId"), Arg(args, "summary"))
           [] name = "agentation_dismiss" ->
                  toolDismiss(Arg(args, "annotationId"), Arg(args, "reason"))
           [] name = "agentation_reply" ->
                  toolReply(Arg(args, "annotationId"), Arg(args, "message"))
           [] OTHER -> /\ tool = Idle
                       /\ toolResult' = error(<<"Unknown tool: ", name>>)
                       /\ UNCHANGED <<storeVars, busVars, resp, tool>>

\* ------------------------------------------------------------------ command line
\* The commands of the CLI work on the argument vector and on the
\* configuration files; the broker state plays no part in them.
NoCommand == [pc |-> "none"]

brokerVars == <<sessions, annotations, nextAnnotationId, clock, sequence, eventLog,
                emitted, conns, resp, tool, toolResult, apiKey>>

\* `http://localhost:${port}`, and a URL given as an argument.
Localhost(port) == <<"http://localhost:", port>>

GivenUrl(arg) == <<arg>>

\* The characters of an argument of the model, as far as parseInt reads them.
ArgChars(arg) ==
    CASE arg = "8080" -> <<"8", "0", "8", "0">>
      [] arg = "70000" -> <<"7", "0", "0", "0", "0">>
      [] arg = "http://remote:9000" -> <<"h">>
      [] OTHER -> <<"-", "-">>

parseIntArg(arg) == parseInt(ArgChars(arg))

\* args[j] is a non-empty string.
Truthy(args, j) == j <= Len(args) /\ args[j] # ""

Includes(args, arg) == \E j \in DOMAIN args : args[j] = arg

\* The options of the server command before its loop over the arguments.
serverOptions(args) ==
    [args |-> args, i |-> 1, port |-> DefaultPort, mcpOnly |-> FALSE,
     httpUrl |-> Localhost(DefaultPort), apiKeyArg |-> Absent]

\* One turn of the loop: the four tests in their order, each on args[i] as
\* the tests before it have left i, then the i++ of the loop.
serverArg(o) ==
    LET args == o.args
        isPort == args[o.i] = "--port" /\ Truthy(args, o.i + 1)
        parsed == parseIntArg(args[o.i + 1])
        valid == isPort /\ ~parsed.nan /\ parsed.value > 0 /\ parsed.value < 65536
        port == IF valid THEN parsed.value ELSE o.port
        i1 == IF isPort THEN o.i + 1 ELSE o.i
        url1 == IF valid /\ ~Includes(args, "--http-url")
                THEN Localhost(port) ELSE o.httpUrl
        mcpOnly == o.mcpOnly \/ args[i1] = "--mcp-only"
        isUrl == args[i1] = "--http-url" /\ Truthy(args, i1 + 1)
        url2 == IF isUrl THEN GivenUrl(args[i1 + 1]) ELSE url1
        i2 == IF isUrl THEN i1 + 1 ELSE i1
        isKey == args[i2] = "--api-key" /\ Truthy(args, i2 + 1)
        key == IF isKey THEN args[i2 + 1] ELSE o.apiKeyArg
        i3 == IF isKey THEN i2 + 1 ELSE i2
    IN  [args |-> args, i |-> i3 + 1, port |-> port, mcpOnly |-> mcpOnly,
         httpUrl |-> url2, apiKeyArg |-> key]

\* The loop run to its end.
RECURSIVE parseServerArgs(_)
parseServerArgs(o) == IF o.i > Len(o.args) THEN o ELSE parseServerArgs(serverArg(o))

\* process.argv.slice(3) is read and the options take their defaults.
serverCommand(args) ==
    /\ cli.pc = "argv"
    /\ cli' = [pc |-> "loop", options |-> serverOptions(args),
               http |-> FALSE, httpPort |-> Absent,
               httpBaseUrl |-> Localhost(DefaultPort), mcp |-> FALSE]
    /\ UNCHANGED brokerVars

serverLoop ==
    /\ cli.pc = "loop"
    /\ cli.options.i <= Len(cli.options.args)
    /\ cli' = [cli EXCEPT !.options = serverArg(@)]
    /\ UNCHANGED brokerVars

\* What the command starts once the options are read: the HTTP surface
\* unless --mcp-only was given, and the MCP transport.
serverStarts(o) == [http |-> ~o.mcpOnly, mcp |-> TRUE]

\* if (!mcpOnly) startHttpServer(port, apiKey)
serverStartHttp ==
    /\ cli.pc = "loop"
    /\ cli.options.i > Len(cli.options.args)
    /\ cli' = [cli EXCEPT !.pc = "http",
                          !.http = serverStarts(cli.options).http,
                          !.httpPort = IF serverStarts(cli.options).http
                                       THEN cli.options.port ELSE Absent]
    /\ UNCHANGED brokerVars

\* startMcpServer(httpUrl): setHttpBaseUrl when a URL is passed, then the
\* transport is connected.
serverStartMcp ==
    /\ cli.pc = "http"
    /\ cli' = [cli EXCEPT !.pc = "running",
                          !.mcp = serverStarts(cli.options).mcp,
                          !.httpBaseUrl = cli.options.httpUrl]
    /\ UNCHANGED brokerVars

\* ------------------------------------------------------------------ agent configs
\* The files init writes and doctor reads. A line of text is the sequence of
\* its tokens: brackets, the double quote, the comma, the space, each digit and
\* each run of other characters are tokens of their own. A text is the sequence
\* of its lines as split("\n") gives them, so a text that ends in a newline
\* ends in an empty line.
Quote == "QUOTE"

Quoted(text) == <<Quote, text, Quote>>

RECURSIVE trimStart(_)
trimStart(line) ==
    IF line # <<>> /\ Head(line) = " " THEN trimStart(Tail(line)) ELSE line

RECURSIVE trimEnd(_)
trimEnd(line) ==
    IF line # <<>> /\ line[Len(line)] = " "
    THEN trimEnd(SubSeq(line, 1, Len(line) - 1))
    ELSE line

trim(line) == trimEnd(trimStart(line))

\* parsePortFromArgArray: the value after the first --port that parses to a
\* port, else the default.
parsePortFromArgArray(args) ==
    LET Found(i) == /\ args[i] = <<"--port">>
                    /\ i + 1 <= Len(args)
                    /\ ~parseInt(args[i + 1]).nan
                    /\ parseInt(args[i + 1]).value > 0
                    /\ parseInt(args[i + 1]).value < 65536
    IN  IF \E i \in DOMAIN args : Found(i)
        THEN parseInt(args[(CHOOSE i \in DOMAIN args :
                                Found(i) /\ \A j \in 1..(i - 1) : ~Found(j)) + 1]).value
        ELSE DefaultPort

NoClaudeConfig == [found |-> FALSE, json |-> FALSE, hasServers |-> FALSE, servers |-> <<>>]

\* The args init gives the agentation entry of the Claude config.
claudeArgs(port) ==
    IF port = DefaultPort
    THEN << <<"agentation-mcp">>, <<"server">> >>
    ELSE << <<"agentation-mcp">>, <<"server">>, <<"--port">>, String(port) >>

\* writeClaudeConfig: the parsed file, or {} when there is none or it does not
\* parse, with mcpServers.agentation set and the other entries kept.
writeClaudeConfig(file, port) ==
    LET servers == IF file.found /\ file.json /\ file.hasServers
                   THEN file.servers ELSE <<>>
        entry == [name |-> "agentation", args |-> claudeArgs(port)]
    IN  [found |-> TRUE, json |-> TRUE, hasServers |-> TRUE,
         servers |-> IF \E i \in DOMAIN servers : servers[i].name = "agentation"
                     THEN [i \in DOMAIN servers |->
                              IF servers[i].name = "agentation" THEN entry
                              ELSE servers[i]]
                     ELSE Append(servers, entry)]

\* doctor, for Claude: the port of config.mcpServers?.agentation, the default
\* when the file or the entry is missing.
claudeDoctorPort(file) ==
    IF file.found /\ file.json /\ file.hasServers
          /\ \E i \in DOMAIN file.servers : file.servers[i].name = "agentation"
    THEN parsePortFromArgArray(
             file.servers[CHOOSE i \in DOMAIN file.servers :
                              file.servers[i].name = "agentation"].args)
    ELSE DefaultPort

sectionHeader == <<"[", "mcp_servers.agentation", "]">>

\* `args = [...]` of the Codex block.
codexArgsLine(port) ==
    <<"args", " ", "=", " ", "[">> \o Quoted("-y") \o <<",", " ">>
        \o Quoted("agentation-mcp") \o <<",", " ">> \o Quoted("server")
        \o (IF port = DefaultPort THEN <<>>
            ELSE <<",", " ">> \o Quoted("--port") \o <<",", " ", Quote>>
                     \o String(port) \o <<Quote>>)
        \o <<"]">>

buildCodexAgentationBlock(port) ==
    << sectionHeader,
       <<"command", " ", "=", " ">> \o Quoted("npx"),
       codexArgsLine(port),
       <<>> >>

NoCodexConfig == [found |-> FALSE, lines |-> <<>>]

\* /^\[[^\]]+\]$/ on a line
TableHeader(line) ==
    /\ Len(line) >= 3
    /\ line[1] = "["
    /\ line[Len(line)] = "]"
    /\ \A i \in 2..(Len(line) - 1) : line[i] # "]"

\* content.endsWith("\n")
endsWithNewline(lines) == Len(lines) >= 2 /\ lines[Len(lines)] = <<>>

\* writeCodexConfig: the block alone when there is no file; the block after
\* the content when no line is the section header; else the block in place
\* of the lines from the header up to the next line that is a table header.
writeCodexConfig(file, port) ==
    LET blockLines == buildCodexAgentationBlock(port)
        lines == file.lines
        IsSection(i) == trim(lines[i]) = sectionHeader
        start == IF \E i \in DOMAIN lines : IsSection(i)
                 THEN CHOOSE i \in DOMAIN lines :
                          IsSection(i) /\ \A j \in 1..(i - 1) : ~IsSection(j)
                 ELSE 0
        IsEnd(i) == i > start /\ TableHeader(trim(lines[i]))
        end == IF \E i \in DOMAIN lines : IsEnd(i)
               THEN CHOOSE i \in DOMAIN lines : IsEnd(i) /\ \A j \in 1..(i - 1) : ~IsEnd(j)
               ELSE Len(lines) + 1
        merged == SubSeq(lines, 1, start - 1) \o blockLines
                      \o SubSeq(lines, end, Len(lines))
    IN  IF ~file.found THEN [found |-> TRUE, lines |-> blockLines]
        ELSE IF start = 0
        THEN [found |-> TRUE,
              lines |-> lines \o (IF endsWithNewline(lines) THEN <<>> ELSE << <<>> >>)
                            \o blockLines]
        ELSE [found |-> TRUE,
              lines |-> IF endsWithNewline(merged) THEN merged ELSE Append(merged, <<>>)]

\* /^\[[^\]]+\]/ at the start of a line
HeaderPrefix(line) ==
    \E j \in 3..Len(line) :
        line[1] = "[" /\ line[j] = "]" /\ \A i \in 2..(j - 1) : line[i] # "]"

\* /"--port"\s*,\s*"(\d+)"/ at the head of s: the digits, or <<>> when s
\* does not begin with a match.
portAt(s) ==
    IF Len(s) >= 3 /\ SubSeq(s, 1, 3) = Quoted("--port")
    THEN LET r1 == trimStart(SubSeq(s, 4, Len(s))) IN
         IF r1 # <<>> /\ Head(r1) = ","
         THEN LET r2 == trimStart(Tail(r1)) IN
              IF r2 # <<>> /\ Head(r2) = Quote
              THEN LET r3 == Tail(r2)
                       n == IF \E i \in DOMAIN r3 : r3[i] \notin DigitChars
                            THEN (CHOOSE i \in DOMAIN r3 :
                                     /\ r3[i] \notin DigitChars
                                     /\ \A j \in 1..(i - 1) : r3[j] \in DigitChars) - 1
                            ELSE Len(r3)
                   IN  IF n >= 1 /\ n < Len(r3) /\ r3[n + 1] = Quote
                       THEN SubSeq(r3, 1, n) ELSE <<>>
              ELSE <<>>
         ELSE <<>>
    ELSE <<>>

\* getCodexAgentationPort. The first pattern has the m flag, so its $ holds at
\* the end of every line: the lazy group ends at the first place after the
\* header line where a table header begins or a line ends, which leaves it
\* empty or the one line that follows the header. The header must be a whole
\* line with a newline after it.
getCodexAgentationPort(lines) ==
    LET IsMatch(i) == lines[i] = sectionHeader /\ i < Len(lines)
        start == IF \E i \in DOMAIN lines : IsMatch(i)
                 THEN CHOOSE i \in DOMAIN lines : IsMatch(i) /\ \A j \in 1..(i - 1) : ~IsMatch(j)
                 ELSE 0
        section == IF HeaderPrefix(lines[start + 1]) THEN <<>> ELSE lines[start + 1]
        Matches(i) == portAt(SubSeq(section, i, Len(section))) # <<>>
    IN  IF start = 0 THEN DefaultPort
        ELSE IF \E i \in DOMAIN section : Matches(i)
        THEN LET i == CHOOSE k \in DOMAIN section :
                          Matches(k) /\ \A j \in 1..(k - 1) : ~Matches(j)
                 parsed == parseInt(portAt(SubSeq(section, i, Len(section))))
             IN  IF parsed.nan THEN DefaultPort ELSE parsed.value
        ELSE DefaultPort

\* configText.includes("[mcp_servers.agentation]")
includesSectionHeader(lines) ==
    \E i \in DOMAIN lines : includes(lines[i], sectionHeader)

\* doctor, for Codex
codexDoctorPort(file) ==
    IF file.found /\ includesSectionHeader(file.lines)
    THEN getCodexAgentationPort(file.lines)
    ELSE DefaultPort

\* init, from the answers to its questions on: the config of the agent is
\* written with the port.
initWrite ==
    /\ cli.pc = "init"
    /\ cli' = [cli EXCEPT !.pc = "written",
                          !.claude = IF cli.agent = "claude"
                                     THEN writeClaudeConfig(cli.claude, cli.port)
                                     ELSE cli.claude,
                          !.codex = IF cli.agent = "codex"
                                    THEN writeCodexConfig(cli.codex, cli.port)
                                    ELSE cli.codex]
    /\ UNCHANGED brokerVars

\* doctor: the port it goes on to probe is read from the config of the agent.
doctor ==
    /\ cli.pc \in {"init", "written"}
    /\ cli' = [cli EXCEPT !.pc = IF cli.pc = "written" THEN "checked" ELSE "probed",
                          !.read = IF cli.agent = "claude"
                                   THEN claudeDoctorPort(cli.claude)
                                   ELSE codexDoctorPort(cli.codex)]
    /\ UNCHANGED brokerVars

\* ------------------------------------------------------------------ inputs
CreateBodies == {BadJson} \cup {[valid |-> TRUE, url |-> u] : u \in Urls \cup {Absent}}

AnnotationBodies ==
    {BadJson,
     [valid |-> TRUE, comment |-> "fix me", element |-> "button",
      elementPath |-> "body>button"],
     [valid |-> TRUE, comment |-> Absent, element |-> "button",
      elementPath |-> "body>button"],
     [valid |-> TRUE, comment |-> "fix me", element |-> Absent,
      elementPath |-> "body>button"],
     [valid |-> TRUE, comment |-> "fix me", element |-> "button",
      elementPath |-> Absent]}

PatchBodies ==
    {BadJson} \cup {[valid |-> TRUE, status |-> s] : s \in Statuses \cup {Absent, "bogus"}}

ThreadBodies ==
    {BadJson} \cup {[valid |-> TRUE, role |-> r, content |-> c] :
                        r \in Roles \cup {Absent}, c \in {"hi", Absent}}

LastEventIds ==
    {NoHeader, Header(<<>>), Header(<<"0">>), Header(<<"1">>), Header(<<"2">>),
     Header(<<"9">>), Header(<<"x">>)}

Summaries == {Absent, "", "fixed padding"}

\* ------------------------------------------------------------------ specification
Init ==
    /\ sessions = <<>>
    /\ annotations = <<>>
    /\ nextAnnotationId = 1
    /\ clock = 0
    /\ sequence = 0
    /\ eventLog = <<>>
    /\ emitted = <<>>
    /\ conns = <<>>
    /\ resp = [status |-> 0, body |-> [none |-> TRUE]]
    /\ tool = Idle
    /\ toolResult = success([none |-> TRUE])
    /\ apiKey = Absent
    /\ cli = NoCommand

\* The model stops creating where its bounds end; the key given at startup
\* stays what it is.
Bounded ==
    /\ UNCHANGED <<apiKey, cli>>
    /\ Len(sessions') <= MaxSessions
    /\ nextAnnotationId' <= MaxAnnotations + 1
    /\ sequence' <= MaxEvents
    /\ Len(conns') <= MaxConns

\* A request of a browser or of any other HTTP client: no tool is involved.
Client == Bounded /\ UNCHANGED <<tool, toolResult>>

PostSession == \E body \in CreateBodies : createSessionHandler(body) /\ Client

PostAnnotation ==
    \E id \in SessionIds, body \in AnnotationBodies :
        addAnnotationHandler(id, body) /\ Client

PatchAnnotation ==
    \E id \in AnnotationIds, body \in PatchBodies :
        updateAnnotationHandler(id, body) /\ Client

DeleteAnnotation == \E id \in AnnotationIds : deleteAnnotationHandler(id) /\ Client

PostThread ==
    \E id \in AnnotationIds, body \in ThreadBodies : addThreadHandler(id, body) /\ Client

GetAnnotation == \E id \in AnnotationIds : getAnnotationHandler(id) /\ Client

GetPending == \E id \in SessionIds : getPendingHandler(id) /\ Client

GetAllPending == getAllPendingHandler /\ Client

Sweep == \E k \in 1..MaxEvents : sweepEvents(k) /\ Client

\* The REST surface, with the retention sweeper behind it.
Next ==
    \/ PostSession
    \/ PostAnnotation
    \/ PatchAnnotation
    \/ DeleteAnnotation
    \/ PostThread
    \/ GetAnnotation
    \/ GetPending
    \/ GetAllPending
    \/ Sweep

Spec == Init /\ [][Next]_vars

\* ------------------------------------------------------------------ tools
\* The tool dispatcher beside other clients; the other clients send bodies
\* that are complete, and any PATCH.
Complete(bodies) ==
    {b \in bodies : b.valid /\ \A f \in DOMAIN b \ {"valid"} : b[f] # Absent}

OtherPostSession ==
    \E body \in Complete(CreateBodies) : createSessionHandler(body) /\ Client

OtherPostAnnotation ==
    \E id \in 1..MaxSessions, body \in Complete(AnnotationBodies) :
        addAnnotationHandler(id, body) /\ Client

OtherDeleteAnnotation ==
    \E id \in 1..MaxAnnotations : deleteAnnotationHandler(id) /\ Client

OtherPostThread ==
    \E id \in 1..MaxAnnotations, body \in Complete(ThreadBodies) :
        addThreadHandler(id, body) /\ Client

ToolAcknowledge == \E id \in AnnotationIds : toolAcknowledge(id) /\ Bounded

ToolResolve ==
    \E id \in AnnotationIds, summary \in Summaries : toolResolve(id, summary) /\ Bounded

ToolDismiss == \E id \in AnnotationIds : toolDismiss(id, "wontfix") /\ Bounded

ToolThread == toolThread /\ Bounded

ToolGetAllPending == toolGetAllPending /\ Bounded

NextTools ==
    \/ OtherPostSession
    \/ OtherPostAnnotation
    \/ PatchAnnotation
    \/ OtherDeleteAnnotation
    \/ OtherPostThread
    \/ ToolAcknowledge
    \/ ToolResolve
    \/ ToolDismiss
    \/ ToolThread
    \/ ToolGetAllPending

SpecTools == Init /\ [][NextTools]_vars

\* ------------------------------------------------------------------ dispatch
\* The CallTool requests of an agent: names of the catalog and names outside
\* it, with arguments that fit the schemas and arguments that do not.
WatchAnnotations == "agentation_watch_annotations"

ToolNames == TOOLS \cup {WatchAnnotations, "agentation_purge"}

\* Arguments that fit the schema of the tool.
GoodArgs(name) ==
    CASE name \in {"agentation_get_session", "agentation_get_pending"} ->
             {Object([sessionId |-> Str(id)]) : id \in SessionIds}
      [] name = "agentation_acknowledge" ->
             {Object([annotationId |-> Str(id)]) : id \in AnnotationIds}
      [] name = "agentation_resolve" ->
             {Object([annotationId |-> Str(id)]) : id \in AnnotationIds}
             \cup {Object([annotationId |-> Str(id), summary |-> Str(v)]) :
                       id \in AnnotationIds, v \in {"", "fixed padding"}}
      [] name = "agentation_dismiss" ->
             {Object([annotationId |-> Str(id), reason |-> Str("wontfix")]) :
                 id \in AnnotationIds}
      [] name = "agentation_reply" ->
             {Object([annotationId |-> Str(id), message |-> Str(v)]) :
                 id \in AnnotationIds, v \in {"", "on it"}}
      [] OTHER -> {}

\* Arguments the schema of the tool refuses: none at all, a required field
\* missing, a field whose value is not a string. The tools without a schema
\* take them all.
OddArgs(name) ==
    {Undefined, Object([other |-> NotAString])}
    \cup CASE name \in {"agentation_get_session", "agentation_get_pending"} ->
                  {Object([sessionId |-> NotAString])}
           [] name = "agentation_acknowledge" ->
                  {Object([annotationId |-> NotAString])}
           [] name = "agentation_resolve" ->
                  {Object([annotationId |-> NotAString]),
                   Object([annotationId |-> Str(1), summary |-> NotAString])}
           [] name = "agentation_dismiss" ->
                  {Object([annotationId |-> Str(1)]),
                   Object([annotationId |-> Str(1), reason |-> NotAString]),
                   Object([annotationId |-> NotAString, reason |-> Str("wontfix")])}
           [] name = "agentation_reply" ->
                  {Object([annotationId |-> Str(1)]),
                   Object([annotationId |-> Str(1), message |-> NotAString]),
                   Object([annotationId |-> NotAString, message |-> Str("on it")])}
           [] OTHER -> {}

ToolArgs(name) == GoodArgs(name) \cup OddArgs(name)

CallTool ==
    \E name \in ToolNames : \E args \in ToolArgs(name) : handleTool(name, args) /\ Bounded

NextDispatch ==
    \/ OtherPostSession
    \/ OtherPostAnnotation
    \/ OtherDeleteAnnotation
    \/ CallTool
    \/ ToolThread

SpecDispatch == Init /\ [][NextDispatch]_vars

\* ------------------------------------------------------------------ streams
\* The two SSE endpoints, with the mutations of complete bodies and the
\* sweeper behind them.
StreamPatchAnnotation ==
    \E id \in 1..MaxAnnotations, status \in Statuses :
        updateAnnotationHandler(id, [valid |-> TRUE, status |-> status]) /\ Client

GetSessionEvents ==
    \E id \in SessionIds, h \in LastEventIds : sseHandler(id, h) /\ Client

GetEvents ==
    \E d \in Domains \cup {Absent}, h \in LastEventIds : globalSseHandler(d, h) /\ Client

CloseStream == \E c \in DOMAIN conns : sseClose(c) /\ Client

\* The per-session stream.
NextSessionStream ==
    \/ OtherPostSession
    \/ OtherPostAnnotation
    \/ StreamPatchAnnotation
    \/ OtherDeleteAnnotation
    \/ OtherPostThread
    \/ GetSessionEvents
    \/ Sweep

SpecSessionStream == Init /\ [][NextSessionStream]_vars

\* The per-domain stream.
NextDomainStream ==
    \/ OtherPostSession
    \/ OtherPostAnnotation
    \/ StreamPatchAnnotation
    \/ OtherDeleteAnnotation
    \/ OtherPostThread
    \/ GetEvents
    \/ CloseStream

SpecDomainStream == Init /\ [][NextDomainStream]_vars

\* A session read back while its annotations are created, updated and deleted.
GetSession == \E id \in SessionIds : getSessionHandler(id) /\ Client

NextSessionView ==
    \/ OtherPostSession
    \/ OtherPostAnnotation
    \/ StreamPatchAnnotation
    \/ OtherDeleteAnnotation
    \/ GetSession

SpecSessionView == Init /\ [][NextSessionView]_vars

\* Both streams, with their keep-alive timers and the sockets behind them.
StreamClient ==
    /\ UNCHANGED <<apiKey, cli, tool, toolResult>>
    /\ Len(sessions') <= 1
    /\ nextAnnotationId' <= MaxAnnotations + 1
    /\ sequence' <= MaxEvents
    /\ Len(conns') <= MaxStreamConns
    /\ \A c \in DOMAIN conns' : conns'[c].pings <= MaxPings

LivePostSession ==
    createSessionHandler([valid |-> TRUE, url |-> "http://localhost:3000/x"])
        /\ StreamClient

LivePostAnnotation ==
    \E body \in Complete(AnnotationBodies) : addAnnotationHandler(1, body) /\ StreamClient

LiveGetSessionEvents == \E h \in {NoHeader, Header(<<"1">>)} : sseHandler(1, h) /\ StreamClient

LiveGetEvents ==
    \E d \in {"localhost:3000", Absent} : globalSseHandler(d, NoHeader) /\ StreamClient

LiveCloseStream == \E c \in DOMAIN conns : sseClose(c) /\ StreamClient

KeepAlive == \E c \in DOMAIN conns : keepAlivePing(c) /\ StreamClient

SocketDrain == \E c \in DOMAIN conns : socketDrain(c) /\ StreamClient

NextStreamLife ==
    \/ LivePostSession
    \/ LivePostAnnotation
    \/ LiveGetSessionEvents
    \/ LiveGetEvents
    \/ LiveCloseStream
    \/ KeepAlive
    \/ SocketDrain

SpecStreamLife == Init /\ [][NextStreamLife]_vars

\* ------------------------------------------------------------------ foreign surface
\* agentation-mcp server --mcp-only --http-url http://remote:9000, once it
\* runs: the tools reach a surface that is another process, with its other
\* clients.
RemoteArgs == <<"--mcp-only", "--http-url", "http://remote:9000">>

InitRemote ==
    /\ sessions = <<>>
    /\ annotations = <<>>
    /\ nextAnnotationId = 1
    /\ clock = 0
    /\ sequence = 0
    /\ eventLog = <<>>
    /\ emitted = <<>>
    /\ conns = <<>>
    /\ resp = [status |-> 0, body |-> [none |-> TRUE]]
    /\ tool = Idle
    /\ toolResult = success([none |-> TRUE])
    /\ apiKey = Absent
    /\ cli = LET o == parseServerArgs(serverOptions(RemoteArgs))
             IN  [pc |-> "running", options |-> o,
                  http |-> serverStarts(o).http, httpPort |-> Absent,
                  httpBaseUrl |-> o.httpUrl, mcp |-> serverStarts(o).mcp]

\* The other clients of the foreign surface.
RemotePostSession ==
    createSessionHandler([valid |-> TRUE, url |-> "http://localhost:3000/x"]) /\ Client

RemotePostAnnotation ==
    addAnnotationHandler(1, [valid |-> TRUE, comment |-> "fix me", element |-> "button",
                             elementPath |-> "body>button"]) /\ Client

RemoteDeleteAnnotation == \E id \in 1..MaxAnnotations : deleteAnnotationHandler(id) /\ Client

\* The calls made here: those that name the first session or annotation, and
\* those whose arguments are no object.
RemoteToolArgs(name) ==
    {args \in ToolArgs(name) :
        \/ ~args.object
        \/ /\ ~Misfit(name, args)
           /\ \A f \in DOMAIN args.fields \cap IdArgs : args.fields[f].value = 1}

RemoteCallTool ==
    \E name \in ToolNames : \E args \in RemoteToolArgs(name) :
        handleTool(name, args) /\ Bounded

NextRemote ==
    \/ RemotePostSession
    \/ RemotePostAnnotation
    \/ RemoteDeleteAnnotation
    \/ RemoteCallTool
    \/ ToolThread

SpecRemote == InitRemote /\ [][NextRemote]_vars

\* ------------------------------------------------------------------ init and doctor
\* agentation-mcp init for either agent with a port, over the config files it
\* can find, and agentation-mcp doctor before or after it.
Ports == {1, 80, DefaultPort, 8080, 65535}

ClaudeConfigs ==
    LET github == [name |-> "github", args |-> << <<"-y">>, <<"github-mcp">> >>]
        old == [name |-> "agentation",
                args |-> << <<"agentation-mcp">>, <<"server">>, <<"--port">>,
                            <<"9", "0", "0", "0">> >>]
    IN  { NoClaudeConfig,
          [found |-> TRUE, json |-> FALSE, hasServers |-> FALSE, servers |-> <<>>],
          [found |-> TRUE, json |-> TRUE, hasServers |-> FALSE, servers |-> <<>>],
          [found |-> TRUE, json |-> TRUE, hasServers |-> TRUE, servers |-> <<github>>],
          [found |-> TRUE, json |-> TRUE, hasServers |-> TRUE,
           servers |-> <<old, github>>] }

\* The tables a Codex config is made of here: the agentation table as init
\* writes it and as a hand may have written it, and other tables under a
\* plain header (indented), an array-of-tables header, a header with a comment.
TableKinds == {"agentation", "handwritten", "plain", "array", "comment"}

Table(kind) ==
    CASE kind = "agentation" ->
             << sectionHeader, <<"command", " ", "=", " ">> \o Quoted("npx"),
                codexArgsLine(DefaultPort) >>
      [] kind = "handwritten" ->
             << sectionHeader, codexArgsLine(8080) >>
      [] kind = "plain" ->
             << <<" ", "[", "tools", "]">>, <<"web_search", " ", "=", " ", "true">> >>
      [] kind = "array" ->
             << <<"[", "[", "profiles", "]", "]">>,
                <<"name", " ", "=", " ">> \o Quoted("fast") >>
      [] kind = "comment" ->
             << <<"[", "history", "]", " ", "#", " ", "keep">>,
                <<"persistence", " ", "=", " ">> \o Quoted("none") >>

RECURSIVE Tables(_)
Tables(kinds) == IF kinds = <<>> THEN <<>> ELSE Table(Head(kinds)) \o Tables(Tail(kinds))

CodexConfigs ==
    {NoCodexConfig}
    \cup { [found |-> TRUE, lines |-> Tables(kinds) \o last] :
               kinds \in {k \in UNION {[1..n -> TableKinds] : n \in 0..MaxTables} :
                             Cardinality({i \in DOMAIN k :
                                 k[i] \in {"agentation", "handwritten"}}) <= 1},
               last \in {<<>>, << <<>> >>} }

InitConfig ==
    /\ sessions = <<>>
    /\ annotations = <<>>
    /\ nextAnnotationId = 1
    /\ clock = 0
    /\ sequence = 0
    /\ eventLog = <<>>
    /\ emitted = <<>>
    /\ conns = <<>>
    /\ resp = [status |-> 0, body |-> [none |-> TRUE]]
    /\ tool = Idle
    /\ toolResult = success([none |-> TRUE])
    /\ apiKey = Absent
    /\ \E agent \in {"claude", "codex"}, port \in Ports :
       \E claude \in ClaudeConfigs, codex \in CodexConfigs :
           /\ agent = "claude" => codex = NoCodexConfig
           /\ agent = "codex" => claude = NoClaudeConfig
           /\ cli = [pc |-> "init", agent |-> agent, port |-> port,
                     claude |-> claude, codex |-> codex, before |-> codex,
                     read |-> DefaultPort]

NextConfig ==
    \/ initWrite
    \/ doctor

SpecConfig == InitConfig /\ [][NextConfig]_vars

\* ------------------------------------------------------------------ server command
\* agentation-mcp server, with every argument vector of the model.
ServerTokens ==
    {"--port", "--mcp-only", "--http-url", "--api-key", "8080", "70000",
     "http://remote:9000"}

ArgVectors == UNION {[1..n -> ServerTokens] : n \in 0..MaxArgs}

InitCommand ==
    /\ sessions = <<>>
    /\ annotations = <<>>
    /\ nextAnnotationId = 1
    /\ clock = 0
    /\ sequence = 0
    /\ eventLog = <<>>
    /\ emitted = <<>>
    /\ conns = <<>>
    /\ resp = [status |-> 0, body |-> [none |-> TRUE]]
    /\ tool = Idle
    /\ toolResult = success([none |-> TRUE])
    /\ apiKey = Absent
    /\ cli = [pc |-> "argv"]

ServerCommand == \E args \in ArgVectors : serverCommand(args)

NextServer ==
    \/ ServerCommand
    \/ serverLoop
    \/ serverStartHttp
    \/ serverStartMcp

SpecServer == InitCommand /\ [][NextServer]_vars

\* ------------------------------------------------------------------ fields
\* The REST surface with bodies that carry the optional fields of an
\* annotation, and fields a client is not meant to set.
ResolvedAtStamp == "2026-01-01T00:00:00.000Z"

FieldAnnotationBodies ==
    LET required == [valid |-> TRUE, comment |-> "fix me", element |-> "button",
                     elementPath |-> "body>button"]
    IN  { required @@ [intent |-> "fix", severity |-> "blocking",
                       id |-> MaxAnnotations, sessionId |-> MaxSessions,
                       status |-> "resolved"],
          required @@ [intent |-> "bogus"] }

FieldPatchBodies ==
    {[valid |-> TRUE, status |-> s] : s \in Statuses \cup {"bogus"}}
    \cup { [valid |-> TRUE, status |-> "dismissed", resolvedBy |-> "agent",
            resolvedAt |-> ResolvedAtStamp],
           [valid |-> TRUE, resolvedBy |-> "human"],
           [valid |-> TRUE, severity |-> "urgent", resolvedBy |-> "bogus"],
           [valid |-> TRUE, comment |-> "fixed"],
           [valid |-> TRUE, thread |-> <<>>] }

FieldThreadBodies ==
    {[valid |-> TRUE, role |-> r, content |-> "hi"] : r \in {"agent", "system"}}

FieldClient ==
    /\ UNCHANGED <<apiKey, cli, tool, toolResult>>
    /\ Len(sessions') <= MaxSessions
    /\ nextAnnotationId' <= MaxAnnotations + 1
    /\ sequence' <= MaxFieldEvents

FieldPostSession ==
    createSessionHandler([valid |-> TRUE, url |-> "http://localhost:3000/x"])
    /\ FieldClient

FieldPostAnnotation ==
    \E id \in 1..MaxSessions, body \in FieldAnnotationBodies :
        addAnnotationHandler(id, body) /\ FieldClient

FieldPatchAnnotation ==
    \E id \in 1..MaxAnnotations, body \in FieldPatchBodies :
        updateAnnotationHandler(id, body) /\ FieldClient

FieldPostThread ==
    \E id \in 1..MaxAnnotations, body \in FieldThreadBodies :
        addThreadHandler(id, body) /\ FieldClient

FieldDeleteAnnotation ==
    \E id \in 1..MaxAnnotations : deleteAnnotationHandler(id) /\ FieldClient

FieldGetAnnotation ==
    \E id \in AnnotationIds : getAnnotationHandler(id) /\ FieldClient

NextFields ==
    \/ FieldPostSession
    \/ FieldPostAnnotation
    \/ FieldPatchAnnotation
    \/ FieldPostThread
    \/ FieldDeleteAnnotation
    \/ FieldGetAnnotation

SpecFields == Init /\ [][NextFields]_vars

\* ------------------------------------------------------------------ identity
\* The REST surface with PATCH bodies that carry the fields the store assigns
\* at creation: a session id, an annotation id no annotation was given, a
\* creation timestamp.
IdentityPatchBodies ==
    {[valid |-> TRUE, sessionId |-> s] : s \in 1..MaxSessions}
    \cup { [valid |-> TRUE, id |-> 0],
           [valid |-> TRUE, createdAt |-> 0],
           [valid |-> TRUE, comment |-> "fixed", status |-> "acknowledged"] }

IdentityPatchAnnotation ==
    \E id \in 1..MaxAnnotations, body \in IdentityPatchBodies :
        updateAnnotationHandler(id, body) /\ FieldClient

NextIdentity ==
    \/ FieldPostSession
    \/ FieldPostAnnotation
    \/ IdentityPatchAnnotation
    \/ FieldDeleteAnnotation
    \/ FieldGetAnnotation

SpecIdentity == Init /\ [][NextIdentity]_vars

\* ------------------------------------------------------------------ API key
\* The server started with or without --api-key (or AGENTATION_API_KEY), and
\* clients that send no key, that key, or another one.
ApiKeys == {Absent, "ag_xxx"}
Credentials == {Absent, "ag_xxx", "ag_other"}

InitAuth ==
    /\ sessions = <<>>
    /\ annotations = <<>>
    /\ nextAnnotationId = 1
    /\ clock = 0
    /\ sequence = 0
    /\ eventLog = <<>>
    /\ emitted = <<>>
    /\ conns = <<>>
    /\ resp = [status |-> 0, body |-> [none |-> TRUE]]
    /\ tool = Idle
    /\ toolResult = success([none |-> TRUE])
    /\ apiKey \in ApiKeys
    /\ cli = NoCommand

\* The request listener of startHttpServer: the route is matched and its
\* handler called; neither the key of the server nor a credential of the
\* request is looked at.
Serve(credential, handled) == handled /\ Client

AuthPostSession ==
    \E credential \in Credentials, body \in Complete(CreateBodies) :
        Serve(credential, createSessionHandler(body))

AuthPostAnnotation ==
    \E credential \in Credentials, id \in 1..MaxSessions,
       body \in Complete(AnnotationBodies) :
        Serve(credential, addAnnotationHandler(id, body))

AuthPatchAnnotation ==
    \E credential \in Credentials, id \in AnnotationIds, body \in PatchBodies :
        Serve(credential, updateAnnotationHandler(id, body))

AuthDeleteAnnotation ==
    \E credential \in Credentials, id \in AnnotationIds :
        Serve(credential, deleteAnnotationHandler(id))

AuthGetAnnotation ==
    \E credential \in Credentials, id \in AnnotationIds :
        Serve(credential, getAnnotationHandler(id))

NextAuth ==
    \/ AuthPostSession
    \/ AuthPostAnnotation
    \/ AuthPatchAnnotation
    \/ AuthDeleteAnnotation
    \/ AuthGetAnnotation

SpecAuth == InitAuth /\ [][NextAuth]_vars

\* ------------------------------------------------------------------ properties
IsError(response, status) == response.status = status /\ "error" \in DOMAIN response.body

\* C1: every change of an annotation's status, by PATCH or by a tool, is one
\* of pending->acknowledged, pending->dismissed, acknowledged->resolved,
\* acknowledged->dismissed, resolved->pending, dismissed->pending; a PATCH that
\* asks for any other change of status is answered 400 and changes nothing.
C1_StatusTransitions ==
    [][ /\ \A i \in DOMAIN annotations, j \in DOMAIN annotations' :
             (annotations[i].id = annotations'[j].id
                 /\ annotations[i].status # annotations'[j].status)
             => \/ annotations[i].status = "pending"
                      /\ annotations'[j].status \in {"acknowledged", "dismissed"}
                \/ annotations[i].status = "acknowledged"
                      /\ annotations'[j].status \in {"resolved", "dismissed"}
                \/ annotations[i].status \in {"resolved", "dismissed"}
                      /\ annotations'[j].status = "pending"
        /\ \/ IsError(resp', 400) /\ annotations' = annotations
           \/ \A i \in DOMAIN annotations, to \in Statuses :
             LET from == annotations[i].status
                 legal == \/ from = to
                          \/ from = "pending" /\ to \in {"acknowledged", "dismissed"}
                          \/ from = "acknowledged" /\ to \in {"resolved", "dismissed"}
                          \/ from \in {"resolved", "dismissed"} /\ to = "pending"
             IN  (~legal /\ updateAnnotationHandler(annotations[i].id,
                                                   [valid |-> TRUE, status |-> to]))
                 => IsError(resp', 400) /\ annotations' = annotations
      ]_vars

\* C1 happens: an annotation has been reopened, and a resolve of the pending
\* annotation has just been refused with 400.
C1_Witness ==
    /\ IsError(resp, 400)
    /\ toolResult.isError
    /\ \E i \in DOMAIN emitted :
          /\ emitted[i].type = "annotation.updated"
          /\ emitted[i].payload.status = "dismissed"
          /\ getAnnotation(emitted[i].payload.id) # NotFound
          /\ getAnnotation(emitted[i].payload.id).status = "pending"

\* C2: the sequence numbers of the events start at 1 and are strictly
\* increasing and gap-free in emission order, no number is issued twice, and
\* the retained log holds the emitted events in that order, also after the
\* sweeper has removed events.
C2_Sequence ==
    /\ \A i \in DOMAIN emitted : emitted[i].sequence = i
    /\ \A i \in DOMAIN eventLog : eventLog[i] = emitted[eventLog[i].sequence]
    /\ \A i \in DOMAIN eventLog :
          i > 1 => eventLog[i].sequence = eventLog[i - 1].sequence + 1
    /\ eventLog # <<>> => eventLog[Len(eventLog)].sequence = Len(emitted)

\* C2 happens: events were swept and later events are in the log.
C2_Witness ==
    /\ Len(emitted) = 4
    /\ Len(eventLog) = 2
    /\ eventLog[1].sequence = 3

\* The step appends exactly one event, of this type, session and payload.
OneEvent(type, sessionId, payload) ==
    LET event == [type |-> type, sessionId |-> sessionId,
                  sequence |-> Len(emitted) + 1, payload |-> payload]
    IN  emitted' = Append(emitted, event) /\ eventLog' = Append(eventLog, event)

NoEvent == emitted' = emitted /\ Len(eventLog') <= Len(eventLog)

Owner(id) == getAnnotation(id).sessionId

\* C3: every successful mutating request appends exactly one event, owned by
\* the affected session and carrying the entity as it is after the mutation
\* (for DELETE as it was before); a request answered 400 or 404 appends none.
C3_OneEventPerMutation ==
    [][ /\ resp'.status \in {400, 404} => NoEvent
        /\ emitted' # emitted => ok(resp')
        /\ ~ok(resp') \/ \A body \in CreateBodies :
             createSessionHandler(body) =>
                 /\ OneEvent("session.created", resp'.body.id, resp'.body)
                 /\ SessionIn(sessions', resp'.body.id) = resp'.body
        /\ ~ok(resp') \/ \A id \in SessionIds, body \in AnnotationBodies :
             addAnnotationHandler(id, body) =>
                 /\ OneEvent("annotation.created", id, resp'.body)
                 /\ resp'.body = annotations'[Len(annotations')]
                 /\ resp'.body.sessionId = id
        /\ ~ok(resp') \/ \A id \in AnnotationIds, body \in PatchBodies :
             updateAnnotationHandler(id, body) =>
                 /\ OneEvent("annotation.updated", Owner(id), resp'.body)
                 /\ \E i \in DOMAIN annotations' :
                       annotations'[i].id = id /\ annotations'[i] = resp'.body
        /\ ~ok(resp') \/ \A id \in AnnotationIds :
             deleteAnnotationHandler(id) =>
                 /\ getAnnotation(id) # NotFound
                 /\ OneEvent("annotation.deleted", Owner(id), getAnnotation(id))
                 /\ \A i \in DOMAIN annotations' : annotations'[i].id # id
        /\ ~ok(resp') \/ \A id \in AnnotationIds, body \in ThreadBodies :
             addThreadHandler(id, body) =>
                 /\ OneEvent("thread.message", Owner(id),
                                  resp'.body.thread[Len(resp'.body.thread)])
                 /\ resp'.body.thread[Len(resp'.body.thread)].role = body.role
                 /\ \E i \in DOMAIN annotations' :
                       annotations'[i].id = id /\ annotations'[i] = resp'.body
      ]_vars

\* C3 happens: a DELETE has been answered 200 and its event, the fourth, holds
\* the annotation as the PATCH before it had left it.
C3_Witness ==
    /\ resp.status = 200
    /\ "deleted" \in DOMAIN resp.body
    /\ Len(emitted) = 4
    /\ emitted[3].type = "annotation.updated"
    /\ emitted[4].type = "annotation.deleted"
    /\ emitted[4].payload = emitted[3].payload
    /\ emitted[4].payload.status = "acknowledged"

\* C8: when a mutating request is answered with success, the store already
\* holds the mutation and the log already holds its event: a GET of the entity
\* and a replay from the sequence number before the request both show it.
C8_EventBeforeResponse ==
    [][ ~ok(resp') \/
        ( /\ \A body \in CreateBodies :
             (createSessionHandler(body) /\ ok(resp')) =>
                 /\ SessionIn(sessions', resp'.body.id) = resp'.body
                 /\ EventsSinceIn(eventLog', resp'.body.id, sequence) # <<>>
                 /\ EventsSinceIn(eventLog', resp'.body.id, sequence)[1].payload = resp'.body
          /\ \A id \in SessionIds, body \in AnnotationBodies :
             (addAnnotationHandler(id, body) /\ ok(resp')) =>
                 /\ AnnotationIn(annotations', resp'.body.id) = resp'.body
                 /\ EventsSinceIn(eventLog', id, sequence) # <<>>
                 /\ EventsSinceIn(eventLog', id, sequence)[1].payload = resp'.body
          /\ \A id \in AnnotationIds, body \in PatchBodies :
             (updateAnnotationHandler(id, body) /\ ok(resp')) =>
                 /\ AnnotationIn(annotations', id) = resp'.body
                 /\ EventsSinceIn(eventLog', Owner(id), sequence) # <<>>
                 /\ EventsSinceIn(eventLog', Owner(id), sequence)[1].payload = resp'.body
          /\ \A id \in AnnotationIds :
             (deleteAnnotationHandler(id) /\ ok(resp')) =>
                 /\ AnnotationIn(annotations', id) = NotFound
                 /\ EventsSinceIn(eventLog', Owner(id), sequence) # <<>>
                 /\ EventsSinceIn(eventLog', Owner(id), sequence)[1].payload.id = id
          /\ \A id \in AnnotationIds, body \in ThreadBodies :
             (addThreadHandler(id, body) /\ ok(resp')) =>
                 /\ AnnotationIn(annotations', id) = resp'.body
                 /\ EventsSinceIn(eventLog', Owner(id), sequence) # <<>>
                 /\ EventsSinceIn(eventLog', Owner(id), sequence)[1].type = "thread.message"
        ) ]_vars

\* C8 happens: a POST of an annotation has been answered 201 after a sweep.
C8_Witness ==
    /\ resp.status = 201
    /\ "thread" \in DOMAIN resp.body
    /\ Len(eventLog) = 1
    /\ eventLog[1].type = "annotation.created"
    /\ eventLog[1].sequence = 3

\* C9: GET /sessions/:id/pending returns exactly the annotations of session
\* :id that are pending at that instant, each once and in insertion order, with
\* count equal to their number; with none pending, count 0 and an empty list.
C9_SessionPending ==
    [][ "count" \notin DOMAIN resp'.body \/
        \A id \in SessionIds :
            getPendingHandler(id) =>
                LET list == resp'.body.annotations
                    At(k) == CHOOSE i \in DOMAIN annotations : annotations[i] = list[k]
                IN  /\ resp'.status = 200
                    /\ resp'.body.count = Len(list)
                    /\ \A k \in DOMAIN list :
                          /\ \E i \in DOMAIN annotations : annotations[i] = list[k]
                          /\ list[k].sessionId = id
                          /\ list[k].status = "pending"
                    /\ \A i \in DOMAIN annotations :
                          (annotations[i].sessionId = id
                              /\ annotations[i].status = "pending")
                          => \E k \in DOMAIN list : list[k] = annotations[i]
                    /\ \A k \in DOMAIN list : k > 1 => At(k - 1) < At(k)
      ]_vars

\* C9 happens: two sessions hold a pending annotation each, and the answer
\* lists one of them.
C9_Witness ==
    /\ "count" \in DOMAIN resp.body
    /\ resp.body.count = 1
    /\ Len(annotations) = 2
    /\ annotations[1].sessionId # annotations[2].sessionId
    /\ annotations[1].status = "pending"
    /\ annotations[2].status = "pending"
    /\ resp.body.annotations = <<annotations[2]>>

\* C10: GET /pending, and the get_all_pending tool on top of it, return every
\* pending annotation of every session exactly once and no other annotation,
\* with count equal to the number of annotations returned.
C10_AllPending ==
    [][ "count" \notin DOMAIN resp'.body \/
        /\ getAllPendingHandler =>
              LET list == resp'.body.annotations IN
              /\ resp'.status = 200
              /\ resp'.body.count = Len(list)
              /\ \A k \in DOMAIN list :
                    /\ \E i \in DOMAIN annotations : annotations[i] = list[k]
                    /\ list[k].status = "pending"
              /\ \A i \in DOMAIN annotations :
                    annotations[i].status = "pending"
                    => Cardinality({k \in DOMAIN list : list[k] = annotations[i]}) = 1
        /\ toolGetAllPending =>
              LET list == toolResult'.data.annotations IN
              /\ ~toolResult'.isError
              /\ toolResult'.data.count = Len(list)
              /\ \A k \in DOMAIN list :
                    \E i \in DOMAIN annotations :
                        /\ annotations[i].id = list[k].id
                        /\ annotations[i].status = "pending"
              /\ \A i \in DOMAIN annotations :
                    annotations[i].status = "pending"
                    => Cardinality({k \in DOMAIN list :
                                       list[k].id = annotations[i].id}) = 1
      ]_vars

\* C10 happens: the tool has just returned the pending annotations of two
\* sessions.
C10_Witness ==
    /\ "count" \in DOMAIN resp.body
    /\ "count" \in DOMAIN toolResult.data
    /\ toolResult.data.count = 2
    /\ Len(annotations) = 2
    /\ annotations[1].sessionId # annotations[2].sessionId
    /\ {toolResult.data.annotations[k].id : k \in 1..2} =
          {annotations[1].id, annotations[2].id}

\* The Last-Event-ID headers of the model that hold a number, with the number.
NumberedHeaders ==
    { <<Header(<<"0">>), 0>>, <<Header(<<"1">>), 1>>, <<Header(<<"2">>), 2>>,
      <<Header(<<"9">>), 9>> }

StrictlyIncreasing(frames) ==
    \A k \in DOMAIN frames : k > 1 => frames[k].id > frames[k - 1].id

IsPrefix(s, t) == Len(s) <= Len(t) /\ SubSeq(t, 1, Len(s)) = s

HostOfOrigin(url) ==
    IF url = "http://localhost:3000/x" THEN "localhost:3000"
    ELSE IF url = "http://localhost:3001/y" THEN "localhost:3001"
    ELSE ""

\* C6: an open per-domain stream for d gets an event if and only if the
\* event's session exists and the host of its URL is d; an event of a session
\* whose URL does not parse is skipped and the stream stays open; a stream
\* whose domain matches no session has no event frame.
C6_DomainFilter ==
    [][ \A c \in DOMAIN conns :
            conns[c].kind = "domain" =>
                /\ IF emitted' # emitted /\ conns[c].open
                   THEN LET event == emitted'[Len(emitted')]
                            owner == SessionIn(sessions', event.sessionId)
                            matches == /\ owner # NotFound
                                       /\ HostOfOrigin(owner.url) = conns[c].domain
                        IN  /\ conns'[c].frames =
                                  IF matches
                                  THEN Append(conns[c].frames,
                                              [event |-> event.type,
                                               id |-> event.sequence,
                                               data |-> event])
                                  ELSE conns[c].frames
                            /\ conns'[c].open
                   ELSE conns'[c].frames = conns[c].frames
                /\ (\A i \in DOMAIN sessions' :
                       HostOfOrigin(sessions'[i].url) # conns[c].domain)
                   => conns'[c].frames = <<>>
      ]_vars

\* C6 happens: a stream for localhost:3001 was passed events 3 of a session
\* whose URL does not parse and got events 2 and 4 of the session on its host.
C6_Witness ==
    /\ Len(conns) = 1
    /\ conns[1].open
    /\ conns[1].domain = "localhost:3001"
    /\ Len(emitted) = 4
    /\ getSession(emitted[3].sessionId).url = "not a url"
    /\ getSession(emitted[4].sessionId).url = "http://localhost:3001/y"
    /\ [k \in DOMAIN conns[1].frames |-> conns[1].frames[k].id] = <<2, 4>>

\* C7: a connection to GET /events?domain=d with Last-Event-ID n first gets,
\* in sequence order, the logged events with sequence > n whose session is on
\* host d.
C7_DomainReplay ==
    [][ Len(conns') = Len(conns) \/
        \A d \in Domains, hn \in NumberedHeaders :
            globalSseHandler(d, hn[1]) =>
                LET frames == conns'[Len(conns')].frames
                    missed == {i \in DOMAIN eventLog :
                                  /\ eventLog[i].sequence > hn[2]
                                  /\ getSession(eventLog[i].sessionId) # NotFound
                                  /\ HostOfOrigin(getSession(eventLog[i].sessionId).url) = d}
                IN  /\ Len(frames) = Cardinality(missed)
                    /\ \A k \in DOMAIN frames :
                          \E i \in missed : frames[k].data = eventLog[i]
                    /\ StrictlyIncreasing(frames)
      ]_vars

\* C11: in every state, an annotation has both resolvedAt and resolvedBy if
\* and only if its status is resolved or dismissed.
C11_ResolvedFields ==
    \A i \in DOMAIN annotations :
        (annotations[i].resolvedAt # Absent /\ annotations[i].resolvedBy # Absent)
        <=> annotations[i].status \in {"resolved", "dismissed"}

\* C12: an accepted POST /sessions/:id/annotations, whatever else its body
\* carries, creates an annotation with an id no annotation has or had, with
\* sessionId :id, status pending and the submitted comment, element and
\* elementPath; GET /annotations/<id> answers 200 with the stored annotation.
C12_CreateThenGet ==
    [][ /\ (resp'.status # 201 \/ "elementPath" \notin DOMAIN resp'.body) \/
           \A id \in 1..MaxSessions, body \in FieldAnnotationBodies :
               addAnnotationHandler(id, body) =>
                   LET created == resp'.body
                       stored == AnnotationIn(annotations', created.id)
                   IN  /\ \A i \in DOMAIN annotations : annotations[i].id # created.id
                       /\ \A k \in DOMAIN emitted :
                             emitted[k].type = "annotation.created"
                             => emitted[k].payload.id # created.id
                       /\ Cardinality({i \in DOMAIN annotations' :
                                          annotations'[i].id = created.id}) = 1
                       /\ created.sessionId = id
                       /\ created.status = "pending"
                       /\ stored = created
                       /\ stored.comment = body.comment
                       /\ stored.element = body.element
                       /\ stored.elementPath = body.elementPath
        /\ \A id \in AnnotationIds :
               (getAnnotation(id) # NotFound /\ getAnnotationHandler(id))
               => resp' = [status |-> 200, body |-> getAnnotation(id)]
      ]_vars

\* C12 happens: GET has just returned the second annotation, created in the
\* first session with its optional fields and never changed since.
C12_Witness ==
    /\ resp.status = 200
    /\ Len(annotations) = 2
    /\ resp.body = annotations[2]
    /\ annotations[2].id = 2
    /\ annotations[2].sessionId = 1
    /\ annotations[2].status = "pending"
    /\ annotations[2].comment = "fix me"
    /\ annotations[2].intent = "fix"
    /\ annotations[2].updatedAt = annotations[2].createdAt

\* C13: an accepted PATCH /annotations/:id gives every field present in the
\* body the value of the body, leaves every field absent from the body as it
\* was, except the update timestamp, which it advances, and leaves every other
\* annotation and every session unchanged.
C13_PatchFrame ==
    [][ resp'.status # 200 \/
        \A id \in 1..MaxAnnotations, body \in FieldPatchBodies :
            updateAnnotationHandler(id, body) =>
                LET before == getAnnotation(id)
                    after == AnnotationIn(annotations', id)
                IN  /\ after # NotFound
                    /\ \A f \in DOMAIN body \ {"valid"} : after[f] = body[f]
                    /\ \A f \in DOMAIN before \ (DOMAIN body \cup {"updatedAt"}) :
                          after[f] = before[f]
                    /\ after.updatedAt > before.updatedAt
                    /\ Len(annotations') = Len(annotations)
                    /\ \A i \in DOMAIN annotations :
                          annotations[i].id # id => annotations'[i] = annotations[i]
                    /\ sessions' = sessions
      ]_vars

\* C13 happens: a PATCH of the comment alone has just been answered with the
\* second annotation, which kept the intent it was created with, beside a
\* first annotation.
C13_Witness ==
    /\ resp.status = 200
    /\ Len(annotations) = 2
    /\ resp.body = annotations[2]
    /\ annotations[2].comment = "fixed"
    /\ annotations[2].severity = "blocking"
    /\ annotations[2].intent = "fix"
    /\ annotations[2].status = "pending"
    /\ annotations[2].updatedAt > annotations[2].createdAt

\* C14: a PATCH whose status is the status the annotation has is answered
\* with 200, leaves the status as it is and advances the update timestamp.
C14_SameStatusPatch ==
    [][ \A id \in 1..MaxAnnotations, body \in FieldPatchBodies :
            (/\ "status" \in DOMAIN body
             /\ getAnnotation(id) # NotFound
             /\ body.status = getAnnotation(id).status
             /\ updateAnnotationHandler(id, body))
            => /\ resp'.status = 200
               /\ AnnotationIn(annotations', id) # NotFound
               /\ AnnotationIn(annotations', id).status = body.status
               /\ AnnotationIn(annotations', id).updatedAt > getAnnotation(id).updatedAt
      ]_vars

\* C14 happens: a resolved annotation has just been patched with the status
\* resolved: the last two events carry it resolved, the second one later.
C14_Witness ==
    /\ resp.status = 200
    /\ Len(emitted) = 5
    /\ emitted[4].type = "annotation.updated"
    /\ emitted[5].type = "annotation.updated"
    /\ emitted[4].payload.status = "resolved"
    /\ emitted[5].payload.status = "resolved"
    /\ emitted[4].payload.id = emitted[5].payload.id
    /\ emitted[5].payload.updatedAt > emitted[4].payload.updatedAt
    /\ resp.body = emitted[5].payload

\* An annotation of this id was deleted.
Deleted(id) ==
    \E k \in DOMAIN emitted :
        emitted[k].type = "annotation.deleted" /\ emitted[k].payload.id = id

\* The request was answered with this status and left the store, the event
\* log and the streams as they were.
Refused(status) ==
    /\ resp'.status = status
    /\ UNCHANGED <<storeVars, busVars>>

\* C15 as stated: the DELETE of an existing annotation returns 200, and every
\* later DELETE, GET, PATCH or thread POST on its id returns 404, changes no
\* state and emits no event.
C15_AfterDelete ==
    [][ \A id \in AnnotationIds :
            /\ (getAnnotation(id) # NotFound /\ deleteAnnotationHandler(id))
               => resp'.status = 200
            /\ Deleted(id) =>
                  /\ deleteAnnotationHandler(id) => Refused(404)
                  /\ getAnnotationHandler(id) => Refused(404)
                  /\ \A body \in PatchBodies :
                        updateAnnotationHandler(id, body) => Refused(404)
                  /\ \A body \in ThreadBodies :
                        addThreadHandler(id, body) => Refused(404)
      ]_vars

\* C15 amended: the DELETE of an existing annotation returns 200; every later
\* DELETE or GET on its id, every later PATCH with a JSON body and every later
\* thread POST with a JSON body that has role and content returns 404; a later
\* PATCH or thread POST with any other body returns 400; none of them changes
\* state or emits an event.
C15_AfterDeleteWellFormed ==
    [][ \A id \in AnnotationIds :
            /\ (getAnnotation(id) # NotFound /\ deleteAnnotationHandler(id))
               => resp'.status = 200
            /\ Deleted(id) =>
                  /\ deleteAnnotationHandler(id) => Refused(404)
                  /\ getAnnotationHandler(id) => Refused(404)
                  /\ \A body \in PatchBodies :
                        updateAnnotationHandler(id, body)
                        => Refused(IF body.valid THEN 404 ELSE 400)
                  /\ \A body \in ThreadBodies :
                        addThreadHandler(id, body)
                        => Refused(IF body \in Complete(ThreadBodies) THEN 404 ELSE 400)
      ]_vars

\* C15 happens: the only annotation ever created was deleted, and a request
\* since has been answered 404, annotation not found.
C15_Witness ==
    /\ nextAnnotationId = 2
    /\ annotations = <<>>
    /\ Deleted(1)
    /\ emitted[Len(emitted)].type = "annotation.deleted"
    /\ resp = sendError(404, "Annotation not found")

\* C16: DELETE /annotations/:id removes that annotation and its thread
\* messages and nothing else: the sessions are as they were, its own session
\* among them, and every other annotation is unchanged and listed where it was
\* in its session.
C16_DeleteFrame ==
    [][ resp'.status # 200 \/ "deleted" \notin DOMAIN resp'.body \/
        \A id \in AnnotationIds :
            (getAnnotation(id) # NotFound /\ deleteAnnotationHandler(id)) =>
                /\ AnnotationIn(annotations', id) = NotFound
                /\ \A i \in DOMAIN annotations' :
                      \A k \in DOMAIN annotations'[i].thread :
                          annotations'[i].thread[k].annotationId # id
                /\ sessions' = sessions
                /\ getSession(getAnnotation(id).sessionId) # NotFound
                /\ Len(annotations') = Len(annotations) - 1
                /\ \A i \in DOMAIN annotations :
                      annotations[i].id # id
                      => \E j \in DOMAIN annotations' : annotations'[j] = annotations[i]
                /\ \A sid \in SessionIds :
                      SelectSeq(annotations', LAMBDA a : a.sessionId = sid) =
                      SelectSeq(annotations, LAMBDA a : a.sessionId = sid /\ a.id # id)
      ]_vars

\* C16 happens: the first annotation has just been deleted with a thread
\* message on it, and the second annotation of the same session is still there.
C16_Witness ==
    /\ resp = sendJson(200, [deleted |-> TRUE, annotationId |-> 1])
    /\ Len(emitted) = 5
    /\ emitted[5].type = "annotation.deleted"
    /\ emitted[5].payload.id = 1
    /\ emitted[5].payload.thread # <<>>
    /\ Len(annotations) = 1
    /\ annotations[1].id = 2
    /\ annotations[1].sessionId = emitted[5].payload.sessionId
    /\ getSession(annotations[1].sessionId) # NotFound

\* C17: as long as an annotation exists, its thread at an earlier time is a
\* prefix of its thread at any later time, whatever the requests between
\* (a PATCH with a thread field among them); an accepted POST
\* /annotations/:id/thread appends exactly one message, at the end.
C17_ThreadAppendOnly ==
    [][ /\ \A i \in DOMAIN annotations :
               LET after == AnnotationIn(annotations', annotations[i].id) IN
               after # NotFound => IsPrefix(annotations[i].thread, after.thread)
        /\ resp'.status # 201 \/
           \A id \in 1..MaxAnnotations, body \in FieldThreadBodies :
               (getAnnotation(id) # NotFound /\ addThreadHandler(id, body)) =>
                   LET before == getAnnotation(id).thread
                       after == AnnotationIn(annotations', id).thread
                   IN  /\ Len(after) = Len(before) + 1
                       /\ SubSeq(after, 1, Len(before)) = before
                       /\ after[Len(after)].role = body.role
                       /\ after[Len(after)].content = body.content
      ]_vars

\* The body is not JSON, or is JSON without one of these fields.
Lacks(body, fields) == ~body.valid \/ \E f \in fields : body[f] = Absent

\* C18: a POST /sessions without url, a POST /sessions/:id/annotations without
\* comment, element or elementPath, a POST /annotations/:id/thread without role
\* or content, and any of these or a PATCH with a body that is not JSON, is
\* answered 400 with an error and leaves sessions, annotations, threads and
\* the event log unchanged.
C18_BadRequest ==
    [][ /\ \A body \in CreateBodies :
               (Lacks(body, {"url"}) /\ createSessionHandler(body))
               => Refused(400) /\ IsError(resp', 400)
        /\ \A id \in SessionIds, body \in AnnotationBodies :
               (Lacks(body, {"comment", "element", "elementPath"})
                /\ addAnnotationHandler(id, body))
               => Refused(400) /\ IsError(resp', 400)
        /\ \A id \in AnnotationIds, body \in ThreadBodies :
               (Lacks(body, {"role", "content"}) /\ addThreadHandler(id, body))
               => Refused(400) /\ IsError(resp', 400)
        /\ \A id \in AnnotationIds :
               updateAnnotationHandler(id, BadJson)
               => Refused(400) /\ IsError(resp', 400)
      ]_vars

\* C18 happens: with an annotation in the store, a thread POST without role
\* or content has just been refused.
C18_Witness ==
    /\ resp = sendError(400, "role and content are required")
    /\ Len(annotations) = 1
    /\ annotations[1].thread = <<>>
    /\ Len(eventLog) = 2

\* The annotations and thread messages of the store hold values of their
\* enumerations only.
EnumValues(as) ==
    \A i \in DOMAIN as :
        /\ as[i].status \in Statuses
        /\ as[i].intent \in Intents \cup {Absent}
        /\ as[i].severity \in Severities \cup {Absent}
        /\ as[i].resolvedBy \in Roles \cup {Absent}
        /\ \A k \in DOMAIN as[i].thread : as[i].thread[k].role \in Roles

\* The body carries a value outside the enumeration of its field.
OutOfEnum(body) ==
    \/ Field(body, "status") \notin Statuses \cup {Absent}
    \/ Field(body, "intent") \notin Intents \cup {Absent}
    \/ Field(body, "severity") \notin Severities \cup {Absent}
    \/ Field(body, "resolvedBy") \notin Roles \cup {Absent}

\* C19: a request on an existing session or annotation that carries a value
\* outside its enumeration (thread role; annotation status, intent, severity,
\* resolvedBy) is answered 400 and stores nothing, so the store only ever holds
\* values of the enumerations.
C19_EnumRejected ==
    [][ /\ \A id \in 1..MaxAnnotations, body \in FieldThreadBodies :
               (/\ body.role \notin Roles
                /\ getAnnotation(id) # NotFound
                /\ addThreadHandler(id, body))
               => Refused(400)
        /\ \A id \in 1..MaxAnnotations, body \in FieldPatchBodies :
               (/\ OutOfEnum(body)
                /\ getAnnotation(id) # NotFound
                /\ updateAnnotationHandler(id, body))
               => Refused(400)
        /\ \A id \in 1..MaxSessions, body \in FieldAnnotationBodies :
               (/\ Field(body, "intent") \notin Intents \cup {Absent}
                /\ getSession(id) # NotFound
                /\ addAnnotationHandler(id, body))
               => Refused(400)
        /\ EnumValues(annotations')
      ]_vars

\* C20: when the server was started with a key, a request that presents no
\* key or another one is answered 401 and changes nothing in the store.
C20_Unauthorized ==
    [][ apiKey # Absent =>
        \A credential \in Credentials \ {apiKey} :
            /\ \A body \in Complete(CreateBodies) :
                   Serve(credential, createSessionHandler(body)) => Refused(401)
            /\ \A id \in 1..MaxSessions, body \in Complete(AnnotationBodies) :
                   Serve(credential, addAnnotationHandler(id, body)) => Refused(401)
            /\ \A id \in AnnotationIds, body \in PatchBodies :
                   Serve(credential, updateAnnotationHandler(id, body)) => Refused(401)
            /\ \A id \in AnnotationIds :
                   /\ Serve(credential, deleteAnnotationHandler(id)) => Refused(401)
                   /\ Serve(credential, getAnnotationHandler(id)) => Refused(401)
      ]_vars

\* The text `Resolved: ${summary}` for the summaries of the model.
ResolvedText(summary) ==
    IF summary = "" THEN "Resolved: " ELSE "Resolved: fixed padding"

ThreadOf(as, id) == AnnotationIn(as, id).thread

\* C21: a resolve call that succeeds with a summary, the empty string
\* included, has appended exactly one thread message of role agent and content
\* "Resolved: <summary>" to the annotation after its status became resolved; a
\* resolve call that succeeds without a summary appends no message.
C21_ResolveSummary ==
    [][ /\ \A id \in AnnotationIds, summary \in Summaries :
               (toolResolve(id, summary) /\ ok(resp')) =>
                   /\ AnnotationIn(annotations', id).status = "resolved"
                   /\ ThreadOf(annotations', id) = ThreadOf(annotations, id)
                   /\ IF summary = Absent
                      THEN tool' = Idle /\ ~toolResult'.isError
                      ELSE /\ tool'.pc = "thread"
                           /\ tool'.annotationId = id
                           /\ tool'.content = ResolvedText(summary)
        /\ (toolThread /\ "resolved" \in DOMAIN tool.data /\ ~toolResult'.isError) =>
               /\ ThreadOf(annotations', tool.annotationId)
                      = Append(ThreadOf(annotations, tool.annotationId),
                               [annotationId |-> tool.annotationId, role |-> "agent",
                                content |-> ResolvedText(tool.data.summary)])
      ]_vars

\* C22: whatever the status of an existing annotation, a resolve call leaves
\* it resolved with resolver agent, and a dismiss call leaves it dismissed with
\* resolver agent and appends one thread message of role agent and content
\* "Dismissed: <reason>".
C22_ResolveDismissAnyStatus ==
    [][ /\ \A id \in AnnotationIds :
               getAnnotation(id) # NotFound =>
                   /\ \A summary \in Summaries :
                          toolResolve(id, summary) =>
                              /\ AnnotationIn(annotations', id).status = "resolved"
                              /\ AnnotationIn(annotations', id).resolvedBy = "agent"
                   /\ toolDismiss(id, "wontfix") =>
                          /\ AnnotationIn(annotations', id).status = "dismissed"
                          /\ AnnotationIn(annotations', id).resolvedBy = "agent"
                          /\ tool'.pc = "thread"
        /\ (toolThread /\ "dismissed" \in DOMAIN tool.data
                /\ getAnnotation(tool.annotationId) # NotFound) =>
               /\ ~toolResult'.isError
               /\ ThreadOf(annotations', tool.annotationId)
                      = Append(ThreadOf(annotations, tool.annotationId),
                               [annotationId |-> tool.annotationId, role |-> "agent",
                                content |-> "Dismissed: wontfix"])
      ]_vars

\* C23: an acknowledge call on a pending annotation sets its status to
\* acknowledged and returns a success result; on a resolved or dismissed
\* annotation it returns an error result and leaves the annotation unchanged.
C23_Acknowledge ==
    [][ \A id \in AnnotationIds :
            (getAnnotation(id) # NotFound /\ toolAcknowledge(id)) =>
                LET before == getAnnotation(id)
                    after == AnnotationIn(annotations', id)
                IN  /\ before.status = "pending" =>
                           /\ after.status = "acknowledged"
                           /\ toolResult' = success([acknowledged |-> TRUE,
                                                     annotationId |-> id])
                    /\ before.status \in {"resolved", "dismissed"} =>
                           /\ toolResult'.isError
                           /\ after = before
                           /\ UNCHANGED <<annotations, busVars>>
      ]_vars

C23_Witness ==
    \E id \in AnnotationIds :
        /\ toolResult = success([acknowledged |-> TRUE, annotationId |-> id])
        /\ getAnnotation(id) # NotFound
        /\ getAnnotation(id).status = "acknowledged"
        /\ resp.status = 200

\* C24: watch_annotations is a tool of the catalog; a call to it is
\* dispatched and returns a batch of annotations, an empty one when the
\* timeout passes, never an error result.
C24_WatchAnnotations ==
    [][ \A args \in ToolArgs(WatchAnnotations) :
            handleTool(WatchAnnotations, args) =>
                /\ WatchAnnotations \in TOOLS
                /\ ~toolResult'.isError
                /\ "annotations" \in DOMAIN toolResult'.data
      ]_vars

\* C25: a call to any tool name the list-tools request returns is dispatched
\* to that tool and never answered "Unknown tool"; a call with a name outside
\* the catalog returns an error result with a message, makes no HTTP request
\* and changes nothing.
C25_Dispatch ==
    [][ /\ \A name \in TOOLS : toolResult' # error(<<"Unknown tool: ", name>>)
        /\ \A name \in ToolNames \ TOOLS : \A args \in ToolArgs(name) :
               handleTool(name, args) =>
                   /\ toolResult' = error(<<"Unknown tool: ", name>>)
                   /\ UNCHANGED <<storeVars, busVars, resp, tool>>
      ]_vars

C25_Witness ==
    /\ toolResult = error(<<"Unknown tool: ", "agentation_purge">>)
    /\ Len(annotations) > 0
    /\ resp.status = 201

SchemaTools ==
    {"agentation_get_session", "agentation_get_pending", "agentation_acknowledge",
     "agentation_resolve", "agentation_dismiss", "agentation_reply"}

\* C26: a call to get_session, get_pending, acknowledge, resolve, dismiss or
\* reply whose arguments lack a required field or hold a value that is not a
\* string returns an error result, makes no HTTP request and leaves the store
\* and the event log unchanged.
C26_SchemaEnforced ==
    [][ \A name \in SchemaTools : \A args \in OddArgs(name) :
            (Misfit(name, args) /\ handleTool(name, args)) =>
                /\ toolResult'.isError
                /\ UNCHANGED <<storeVars, busVars, resp, tool>>
      ]_vars

C26_Witness ==
    /\ toolResult = error(<<"ZodError", "agentation_dismiss">>)
    /\ \E i \in DOMAIN annotations : annotations[i].status = "pending"
    /\ resp.status = 201

NotFoundError(kind, id) ==
    /\ toolResult' = error(<<kind, id>>)
    /\ UNCHANGED <<storeVars, busVars, tool>>

\* C27: a tool call that names a session or an annotation that does not
\* exist (get_session and get_pending with an unknown sessionId; acknowledge,
\* resolve, dismiss and reply with an unknown annotationId) returns an error
\* result whose message is "<kind> not found: <id>" and changes nothing.
C27_ToolNotFound ==
    [][ /\ \A id \in SessionIds :
               getSession(id) = NotFound =>
                   \A name \in {"agentation_get_session", "agentation_get_pending"} :
                       handleTool(name, Object([sessionId |-> Str(id)]))
                           => NotFoundError("Session not found: ", id)
        /\ \A id \in AnnotationIds :
               getAnnotation(id) = NotFound =>
                   \A name \in {"agentation_acknowledge", "agentation_resolve",
                                "agentation_dismiss", "agentation_reply"} :
                       \A args \in {a \in GoodArgs(name) : a.fields.annotationId = Str(id)} :
                           handleTool(name, args)
                               => NotFoundError("Annotation not found: ", id)
      ]_vars

\* The frames the listener of a connection writes for an event.
Written(conn, event) ==
    IF conn.kind = "session"
    THEN sessionListener(conn.sessionId, event)
    ELSE domainListener(conn.domain, event, SessionIn(sessions', event.sessionId))

\* C28: a slow SSE connection never delays the delivery of an event to any
\* other subscriber: every subscriber is written the event in the step that
\* emits it, whatever the other connections have buffered. A connection whose
\* outgoing buffer overflows is dropped, its subscription cancelled and its
\* stream closed.
C28_SlowConnection ==
    [][ /\ emitted' # emitted =>
               \A c \in DOMAIN conns :
                   conns[c].subscribed =>
                       conns'[c].frames
                           = conns[c].frames \o Written(conns[c], emitted'[Len(emitted')])
        /\ \A c \in DOMAIN conns' :
               conns'[c].buffered > MaxBuffered =>
                   ~conns'[c].open /\ ~conns'[c].subscribed
      ]_vars

\* C29: once the client of an SSE stream has disconnected, the subscription
\* of the stream is cancelled and its keep-alive timer stopped, so no event
\* frame and no ping is written to the connection afterwards; a second
\* cancellation changes nothing; and a connection holds a live subscription
\* and a running timer exactly when it is open.
C29_Disconnect ==
    [][ /\ \A c \in DOMAIN conns' :
               /\ conns'[c].subscribed <=> conns'[c].open
               /\ conns'[c].keepAlive <=> conns'[c].open
        /\ \A c \in DOMAIN conns :
               ~conns[c].open =>
                   /\ conns'[c].frames = conns[c].frames
                   /\ conns'[c].pings = conns[c].pings
                   /\ sseClose(c) => UNCHANGED vars
      ]_vars

C29_Witness ==
    \E c \in DOMAIN conns :
        /\ ~conns[c].open
        /\ ~conns[c].subscribed
        /\ \E j \in DOMAIN conns[c].frames, k \in DOMAIN emitted :
               /\ emitted[k].sequence > conns[c].frames[j].id
               /\ emitted[k].sessionId = conns[c].frames[j].data.sessionId
               /\ \A i \in DOMAIN conns[c].frames :
                      conns[c].frames[i].id # emitted[k].sequence

IdsOf(as) == [i \in DOMAIN as |-> as[i].id]

\* C30: GET /sessions/:id returns the annotations the session still has, each
\* once, in the order of their creation, after any creations, updates and
\* deletions; an update of an annotation leaves every annotation at its
\* position.
C30_CreationOrder ==
    [][ /\ (resp'.status # 200 \/ "session" \notin DOMAIN resp'.body) \/
           \A id \in SessionIds :
               (getSession(id) # NotFound /\ getSessionHandler(id)) =>
                   LET list == resp'.body.annotations
                       kept == {i \in DOMAIN annotations : annotations[i].sessionId = id}
                   IN  /\ Len(list) = Cardinality(kept)
                       /\ \A i \in kept : \E k \in DOMAIN list : list[k] = annotations[i]
                       /\ \A k \in DOMAIN list : list[k].sessionId = id
                       /\ \A j, k \in DOMAIN list :
                              j < k => list[j].createdAt < list[k].createdAt
        /\ Len(annotations') = Len(annotations) => IdsOf(annotations') = IdsOf(annotations)
      ]_vars

C30_Witness ==
    /\ resp.status = 200
    /\ "session" \in DOMAIN resp.body
    /\ Len(resp.body.annotations) = 2
    /\ resp.body.annotations[1].updatedAt > resp.body.annotations[2].createdAt
    /\ resp.body.annotations[1].status # "pending"

\* Some --http-url of the argument vector has an argument after it.
SuppliesHttpUrl(args) ==
    \E j \in DOMAIN args : args[j] = "--http-url" /\ j < Len(args)

Combined == cli.pc = "running" /\ ~cli.options.mcpOnly

\* C31: in combined mode, when the argument vector supplies no value for
\* --http-url, the base URL of the tool dispatcher is http://localhost:<p>,
\* p being the port the HTTP surface was started on.
C31_BaseUrl ==
    (Combined /\ ~SuppliesHttpUrl(cli.options.args))
        => cli.httpBaseUrl = Localhost(cli.httpPort)



\* The mode named by what has been started.
Mode(started) ==
    CASE started.http /\ started.mcp -> "combined"
      [] started.http /\ ~started.mcp -> "http-only"
      [] ~started.http /\ started.mcp -> "acp-only"
      [] OTHER -> "none"

\* C32: the server command starts in one of three modes, combined, HTTP-only
\* and ACP-only, each of which some argument vector selects; with --mcp-only
\* the HTTP surface is never started, and in HTTP-only mode the MCP transport
\* is never started.
C32_Modes ==
    /\ \A m \in {"combined", "http-only", "acp-only"} :
           \E args \in ArgVectors :
               Mode(serverStarts(parseServerArgs(serverOptions(args)))) = m
    /\ cli.pc \in {"loop", "http", "running"} =>
           /\ cli.options.mcpOnly => ~cli.http
           /\ Mode(cli) = "http-only" => ~cli.mcp

\* The first request of resolve or dismiss has been refused.
PatchRefused(id) ==
    /\ toolResult'.isError
    /\ tool' = Idle
    /\ UNCHANGED <<storeVars, busVars>>

\* The status change of a resolve or dismiss call has been applied and its
\* event emitted; the thread message is still to be posted.
PatchApplied(id, status) ==
    /\ tool'.pc = "thread"
    /\ tool'.annotationId = id
    /\ AnnotationIn(annotations', id).status = status
    /\ sequence' = sequence + 1

ThreadPosted ==
    /\ getAnnotation(tool.annotationId) # NotFound
    /\ ThreadOf(annotations', tool.annotationId)
           = Append(ThreadOf(annotations, tool.annotationId),
                    [annotationId |-> tool.annotationId, role |-> "agent",
                     content |-> tool.content])

\* The first request of every resolve with a summary and of every dismiss
\* is refused with nothing changed, or applied with the second request to follow.
FirstRequest ==
    \A id \in AnnotationIds :
        /\ toolResolve(id, "fixed padding") =>
               PatchRefused(id) \/ PatchApplied(id, "resolved")
        /\ toolDismiss(id, "wontfix") =>
               PatchRefused(id) \/ PatchApplied(id, "dismissed")

C34_IdentityKept ==
    [][ Len(annotations') = Len(annotations) =>
          \A i \in DOMAIN annotations :
              /\ annotations'[i].id = annotations[i].id
              /\ annotations'[i].sessionId = annotations[i].sessionId
              /\ annotations'[i].createdAt = annotations[i].createdAt
      ]_vars

\* The result says whether it is an error, and the dispatcher is done with the
\* call or at the second request of it.
Structured ==
    /\ "isError" \in DOMAIN toolResult'
    /\ toolResult'.isError \in BOOLEAN
    /\ tool'.pc \in {"idle", "thread"}

\* The result is an error and the dispatcher is ready for the next request.
ErrorResult == toolResult'.isError /\ tool' = Idle

\* C35: every call-tool request ends with a structured result: a schema
\* violation, a response that is not 2xx and a surface that cannot be reached
\* each become a result with isError:true, nothing goes on to the transport,
\* and the dispatcher is ready for the next request.
C35_StructuredResult ==
    [][ /\ Structured
        /\ (tool = Idle /\ ~ErrorResult) =>
              \A name \in ToolNames : \A args \in RemoteToolArgs(name) :
                  handleTool(name, args) =>
                      (Parsed(name, args) /\ name \in TOOLS /\ ok(resp'))
        /\ (tool # Idle /\ ~ErrorResult) => (toolThread => ok(resp'))
      ]_vars

\* C35 happens: a call has just met a surface that cannot be reached, with an
\* annotation in the store behind it, and ended with the error of fetch.
C35_Witness ==
    /\ resp = Unreachable
    /\ toolResult = error(<<"fetch failed">>)
    /\ tool = Idle
    /\ Len(annotations) > 0

\* The tools that look for a 404 in the error of their request.
CatchingTools ==
    {"agentation_get_session", "agentation_acknowledge", "agentation_resolve",
     "agentation_dismiss", "agentation_reply"}

\* The result is the message "<kind> not found: <id>".
NotFoundResult ==
    /\ toolResult'.isError
    /\ Len(toolResult'.data.message) = 2
    /\ toolResult'.data.message[1] \in {"Session not found: ", "Annotation not found: "}

\* The failed request of the step is reported as what it was: not found for
\* a 404 and for nothing else, and any other status with status and body.
ReportedAsAnswered ==
    /\ NotFoundResult <=> resp'.status = 404
    /\ resp'.status \notin {0, 404} =>
           toolResult' = error(<<"HTTP ", resp'.status, resp'.body>>)

\* C39: a tool returns "<kind> not found: <id>" if and only if one of its
\* requests was answered 404; a request that failed with another status (400,
\* 500) is reported with that status and its body, whatever the body says.
C39_NotFoundIff404 ==
    [][ /\ tool = Idle =>
              \A name \in CatchingTools : \A args \in RemoteToolArgs(name) :
                  (Parsed(name, args) /\ handleTool(name, args) /\ ~ok(resp'))
                      => ReportedAsAnswered
        /\ (tool # Idle /\ toolThread /\ ~ok(resp')) => ReportedAsAnswered
      ]_vars

\* The request was refused and set nothing up: the response is the error and
\* not the headers of a stream, and no connection was tracked, subscribed or
\* given a keep-alive timer.
RefusedStream(status, message) ==
    /\ resp' = sendError(status, message)
    /\ resp' # StreamOpened
    /\ conns' = conns
    /\ UNCHANGED <<storeVars, sequence, eventLog, emitted>>

C37_PortRoundTrip == cli.pc = "checked" => cli.read = cli.port

\* The lines of a TOML text that belong to no [mcp_servers.agentation] table
\* and are not blank. A table begins at a line whose first character after the
\* indentation is "[", whatever follows the header on the line.
RECURSIVE OtherLines(_, _)
OtherLines(lines, inAgentation) ==
    IF lines = <<>> THEN <<>>
    ELSE LET line == trim(Head(lines))
             header == line # <<>> /\ Head(line) = "["
             agentation == IF header
                           THEN Len(line) >= 3 /\ SubSeq(line, 1, 3) = sectionHeader
                           ELSE inAgentation
         IN  (IF agentation \/ line = <<>> THEN <<>> ELSE <<Head(lines)>>)
                 \o OtherLines(Tail(lines), agentation)

\* C38: writeCodexConfig changes the [mcp_servers.agentation] table of an
\* existing config and nothing else: the lines of every other table, before
\* or after it and whatever the form of their header, are there unchanged and
\* in order afterwards.
C38_OtherTablesKept ==
    (cli.pc = "written" /\ cli.agent = "codex" /\ cli.before.found) =>
        OtherLines(cli.codex.lines, FALSE) = OtherLines(cli.before.lines, FALSE)

====
